---------------------------- MODULE Spec2Model ----------------------------
(***************************************************************************)
(* Model of the bakery compiler (kingofpayne/bakery): the node tree, the   *)
(* recipe and data tree builders, the type resolver and the binary         *)
(* emitter, with one Compiler instance running compile() calls.            *)
(*                                                                         *)
(* Conventions                                                             *)
(*  - Option<T> is a sequence: None is << >>, Some(x) is <<x>>.            *)
(*  - A byte string is a sequence of numbers in 0..255.                    *)
(*  - A BigInt is [neg, mag]: mag is the little-endian base-256 magnitude  *)
(*    without most-significant zero bytes (zero is [neg |-> FALSE,         *)
(*    mag |-> << >>]), so that 64-bit literals never leave the range of    *)
(*    32-bit integers.                                                     *)
(*  - A text is a sequence of one-character strings.                       *)
(***************************************************************************)
EXTENDS Integers, Sequences, FiniteSets, TLC

None == << >>
Some(x) == <<x>>
IsSome(o) == o # << >>
Unwrap(o) == o[1]

-----------------------------------------------------------------------------
(* num_bigint::BigInt, as far as the compiler uses it *)

RECURSIVE StripZeros(_)
StripZeros(bytes) ==
    IF bytes = << >> THEN << >>
    ELSE IF bytes[Len(bytes)] = 0 THEN StripZeros(SubSeq(bytes, 1, Len(bytes) - 1))
    ELSE bytes

BigZero == [neg |-> FALSE, mag |-> << >>]
MkBig(neg, mag) ==
    LET m == StripZeros(mag) IN [neg |-> neg /\ m # << >>, mag |-> m]

\* mag * m + c, on magnitudes (m, c small)
RECURSIVE MulAdd(_, _, _)
MulAdd(mag, m, c) ==
    IF mag = << >>
    THEN IF c = 0 THEN << >> ELSE <<c % 256>> \o MulAdd(<< >>, m, c \div 256)
    ELSE LET v == mag[1] * m + c
         IN  <<v % 256>> \o MulAdd(Tail(mag), m, v \div 256)

\* mag + 1
RECURSIVE MagInc(_)
MagInc(mag) ==
    IF mag = << >> THEN <<1>>
    ELSE IF mag[1] = 255 THEN <<0>> \o MagInc(Tail(mag))
    ELSE <<mag[1] + 1>> \o Tail(mag)

\* mag - 1, for mag > 0 (result may carry a most-significant zero)
RECURSIVE MagDec(_)
MagDec(mag) ==
    IF mag[1] = 0 THEN <<255>> \o MagDec(Tail(mag))
    ELSE <<mag[1] - 1>> \o Tail(mag)

\* -1, 0, 1 as a < b, a = b, a > b on stripped magnitudes
RECURSIVE MagCmp(_, _)
MagCmp(a, b) ==
    IF Len(a) # Len(b) THEN (IF Len(a) < Len(b) THEN -1 ELSE 1)
    ELSE IF a = << >> THEN 0
    ELSE LET n == Len(a)
         IN  IF a[n] # b[n] THEN (IF a[n] < b[n] THEN -1 ELSE 1)
             ELSE MagCmp(SubSeq(a, 1, n - 1), SubSeq(b, 1, n - 1))

BigCmp(a, b) ==
    IF a.neg /\ ~b.neg THEN -1
    ELSE IF ~a.neg /\ b.neg THEN 1
    ELSE IF a.neg THEN MagCmp(b.mag, a.mag)
    ELSE MagCmp(a.mag, b.mag)

BigLe(a, b) == BigCmp(a, b) <= 0
BigGe(a, b) == BigCmp(a, b) >= 0

\* a + 1
BigInc(a) ==
    IF a.neg THEN MkBig(TRUE, MagDec(a.mag)) ELSE MkBig(FALSE, MagInc(a.mag))

\* BigInt::from(2).pow(n) - 1
RECURSIVE Pow2Minus1(_)
Pow2Minus1(n) ==
    IF n = 0 THEN << >>
    ELSE IF n >= 8 THEN <<255>> \o Pow2Minus1(n - 8)
    ELSE <<(2 ^ n) - 1>>

DigitValue(ch) ==
    CASE ch = "0" -> 0 [] ch = "1" -> 1 [] ch = "2" -> 2 [] ch = "3" -> 3
      [] ch = "4" -> 4 [] ch = "5" -> 5 [] ch = "6" -> 6 [] ch = "7" -> 7
      [] ch = "8" -> 8 [] ch = "9" -> 9

RECURSIVE ParseDigits(_, _)
ParseDigits(text, acc) ==
    IF text = << >> THEN acc
    ELSE ParseDigits(Tail(text), MulAdd(acc, 10, DigitValue(text[1])))

\* BigInt::parse_bytes(repr, 10) on a text the grammar's int rule accepted
parse_bytes(repr) ==
    IF repr[1] = "-" THEN MkBig(TRUE, ParseDigits(Tail(repr), << >>))
    ELSE IF repr[1] = "+" THEN MkBig(FALSE, ParseDigits(Tail(repr), << >>))
    ELSE MkBig(FALSE, ParseDigits(repr, << >>))

\* BigUint::to_bytes_le: the magnitude, zero as one zero byte
to_bytes_le(v) == IF v.mag = << >> THEN <<0>> ELSE v.mag

\* two's complement of a little-endian byte string: invert, add one
RECURSIVE twos_complement_le(_, _)
twos_complement_le(bytes, carry) ==
    IF bytes = << >> THEN << >>
    ELSE LET inv == 255 - bytes[1]
             s   == inv + (IF carry THEN 1 ELSE 0)
         IN  <<s % 256>> \o twos_complement_le(Tail(bytes), s > 255)

AllZero(bytes) == \A i \in 1..Len(bytes) : bytes[i] = 0

\* BigInt::to_signed_bytes_le
to_signed_bytes_le(v) ==
    LET bytes == to_bytes_le(v)
        n     == Len(bytes)
        first == bytes[n]
        ext   == IF first > 127
                    /\ ~(first = 128 /\ AllZero(SubSeq(bytes, 1, n - 1)) /\ v.neg)
                 THEN bytes \o <<0>>
                 ELSE bytes
    IN  IF v.neg THEN twos_complement_le(ext, TRUE) ELSE ext

RECURSIVE PadTo(_, _, _)
PadTo(bytes, n, fill) ==
    IF Len(bytes) < n THEN PadTo(bytes \o <<fill>>, n, fill) ELSE bytes

-----------------------------------------------------------------------------
(* int_bounds and write_int_check_bounds (lib.rs) *)

int_boundsMutOffByOne(bit_size, signed) ==
    LET max == MkBig(FALSE, MagInc(Pow2Minus1(IF signed THEN bit_size - 1 ELSE bit_size)))
    IN  [min |-> IF signed THEN MkBig(TRUE, MagInc(max.mag)) ELSE BigZero,
         max |-> max]

int_bounds(bit_size, signed) ==
    LET max == MkBig(FALSE, Pow2Minus1(IF signed THEN bit_size - 1 ELSE bit_size))
    IN  [min |-> IF signed THEN MkBig(TRUE, MagInc(max.mag)) ELSE BigZero,
         max |-> max]

IntBytesMutNoSignExtend(bit_size, signed, value) ==
    IF signed
    THEN PadTo(to_signed_bytes_le(value), bit_size \div 8, 0)
    ELSE PadTo(to_bytes_le(value), bit_size \div 8, 0)

\* the bytes write_int_check_bounds hands to the sink for a value in bounds
IntBytes(bit_size, signed, value) ==
    IF signed
    THEN PadTo(to_signed_bytes_le(value), bit_size \div 8, IF value.neg THEN 255 ELSE 0)
    ELSE PadTo(to_bytes_le(value), bit_size \div 8, 0)

InBounds(bit_size, signed, value) ==
    LET b == int_bounds(bit_size, signed)
    IN  BigLe(value, b.max) /\ BigGe(value, b.min)

-----------------------------------------------------------------------------
(* tree.rs: Tree<T>, an arena of items keyed by id *)

\* Tree::new
Tree_new == [items |-> << >>, next_id |-> 0]

Tree_clearMutReset(t) == Tree_new

\* Tree::clear: the items go, the id counter stays
Tree_clear(t) == [t EXCEPT !.items = << >>]

HasItem(t, id) == id \in DOMAIN t.items
get_item(t, id) == t.items[id]
get(t, id) == t.items[id].value
children(t, id) == t.items[id].children
parent(t, id) == t.items[id].parent

\* TreeItem::unique_child panics without a first child
unique_child_panics(t, id) == children(t, id) = << >>
unique_child(t, id) == children(t, id)[1]

\* TreeItem::unique_child_or_none asserts len <= 1
unique_child_or_none_panics(t, id) == Len(children(t, id)) > 1
unique_child_or_none(t, id) ==
    IF children(t, id) = << >> THEN None ELSE Some(children(t, id)[1])

\* Tree::create_with_parent panics when the parent is unknown; the item is inserted
\* before the parent is looked up, so the id about to be given counts as known
create_with_parent_panics(t, par) ==
    IsSome(par) /\ ~HasItem(t, Unwrap(par)) /\ Unwrap(par) # t.next_id

\* Tree::create_with_parent; the id of the created item is t.next_id
create_with_parent(t, par, value) ==
    LET id   == t.next_id
        item == [id |-> id, parent |-> par, children |-> << >>, value |-> value]
        ins  == (id :> item) @@ t.items
        its  == IF IsSome(par) /\ Unwrap(par) \in DOMAIN ins
                THEN [ins EXCEPT ![Unwrap(par)].children = Append(@, id)]
                ELSE ins
    IN  [next_id |-> id + 1, items |-> its]

\* Tree::create
create(t, value) == create_with_parent(t, None, value)

child_panicsMutNoAssert(t, parent_id, child_id) ==
    \/ ~HasItem(t, child_id)
    \/ ~HasItem(t, parent_id)

\* Tree::child panics on an unknown id or on a child that has a parent
child_panics(t, parent_id, child_id) ==
    \/ ~HasItem(t, child_id)
    \/ IsSome(parent(t, child_id))
    \/ ~HasItem(t, parent_id)

\* Tree::child: the child's parent is set first, then the parent's list grows
child(t, parent_id, child_id) ==
    LET s1 == [t.items EXCEPT ![child_id].parent = Some(parent_id)]
        s2 == IF parent_id \in DOMAIN s1
              THEN [s1 EXCEPT ![parent_id].children = Append(@, child_id)]
              ELSE s1
    IN  [t EXCEPT !.items = s2]

\* Tree::get_mut(id).content = c
set_content(t, id, c) == [t EXCEPT !.items[id].value.content = c]

-----------------------------------------------------------------------------
(* lib.rs: RecTypeId, NodeContent, Node *)

Path(p) == [path |-> Some(p), id |-> None]
Id(n) == [path |-> None, id |-> Some(n)]
IsId(tid) == IsSome(tid.id)
unwrap_id_panics(tid) == ~IsId(tid)
unwrap_id(tid) == Unwrap(tid.id)

RecInt(bit_size, signed) == [kind |-> "RecInt", bit_size |-> bit_size, signed |-> signed]
RecFloat(size) == [kind |-> "RecFloat", size |-> size]
RecList == [kind |-> "RecList"]
RecMap == [kind |-> "RecMap"]
RecEnum(key_type) == [kind |-> "RecEnum", key_type |-> key_type]
RecEnumItem(value) == [kind |-> "RecEnumItem", value |-> value]
RecStruct == [kind |-> "RecStruct"]
RecStructMember == [kind |-> "RecStructMember"]
RecTupleMember(tid) == [kind |-> "RecTupleMember", tid |-> tid]
RecTypeInst(tid) == [kind |-> "RecTypeInst", tid |-> tid]
RecGeneric(index) == [kind |-> "RecGeneric", index |-> index]
RecTuple == [kind |-> "RecTuple"]
DatMap == [kind |-> "DatMap"]
DatTuple == [kind |-> "DatTuple"]
DatList == [kind |-> "DatList"]
DatMapAssignment == [kind |-> "DatMapAssignment"]
DatInt(repr) == [kind |-> "DatInt", repr |-> repr]
DatFloat(repr) == [kind |-> "DatFloat", repr |-> repr]
DatEnum == [kind |-> "DatEnum"]

\* a Node without its source location, which no operation of the compiler reads
Node(name, content) == [name |-> name, content |-> content]
new_builtin(name, content) == Node(Some(name), content)
new_anonymous(content) == Node(None, content)

kind(t, id) == get(t, id).content.kind
name(t, id) == get(t, id).name

\* NodeContent::may_be_generic
may_be_generic(content) == content.kind \in {"RecStruct", "RecList", "RecMap"}

\* small numbers as BigInt::from(n)
BigFrom(n) == MkBig(FALSE, MulAdd(<< >>, 0, n))

-----------------------------------------------------------------------------
(* lib.rs: builders of NodeTree; recipe.rs: bool::recipe *)

\* the loops that grow the tree take the tree as built so far, element after element
Built(t) == t.next_id >= 0

RECURSIVE create_generics(_, _, _, _)
create_generics(t, nid, i, n) ==
    IF i >= n THEN t
    ELSE create_generics(create_with_parent(t, Some(nid), Node(None, RecGeneric(i))),
                         nid, i + 1, n)

\* NodeTree::create_generic_type
create_generic_type(t, par, nm, content, n) ==
    create_generics(create_with_parent(t, par, Node(Some(nm), content)), t.next_id, 0, n)

\* NodeTree::create_root_struct
create_root_struct(t) == create(t, new_anonymous(RecStruct))

\* impl Recipe for bool: an orphan u8 node, the enum, its two items
bool_recipe(t) ==
    LET node_u8   == t.next_id
        t1        == create(t, new_builtin("u8", RecInt(8, FALSE)))
        node_bool == t1.next_id
        t2        == create(t1, new_builtin("bool", RecEnum(Id(node_u8))))
        t3        == create_with_parent(t2, Some(node_bool),
                                        new_builtin("false", RecEnumItem(BigFrom(0))))
        t4        == create_with_parent(t3, Some(node_bool),
                                        new_builtin("true", RecEnumItem(BigFrom(1))))
    IN  [nid |-> node_bool, t |-> t4]

natives ==
    << <<"i8", RecInt(8, TRUE)>>,   <<"u8", RecInt(8, FALSE)>>,
       <<"i16", RecInt(16, TRUE)>>, <<"u16", RecInt(16, FALSE)>>,
       <<"i32", RecInt(32, TRUE)>>, <<"u32", RecInt(32, FALSE)>>,
       <<"i64", RecInt(64, TRUE)>>, <<"u64", RecInt(64, FALSE)>>,
       <<"f32", RecFloat(32)>>,     <<"f64", RecFloat(64)>> >>

RECURSIVE create_natives(_, _, _)
create_natives(t, node, i) ==
    IF i > Len(natives) \/ ~Built(t) THEN t
    ELSE create_natives(
            create_with_parent(t, Some(node), Node(Some(natives[i][1]), natives[i][2])),
            node, i + 1)

\* NodeTree::populate_natives
populate_natives(t, node) ==
    LET t1 == create_natives(t, node, 1)
        b  == bool_recipe(t1)
        t2 == child(b.t, node, b.nid)
        t3 == create_generic_type(t2, Some(node), "List", RecList, 1)
        t4 == create_generic_type(t3, Some(node), "Map", RecMap, 2)
    IN  IF Built(t1) /\ Built(t2) /\ Built(t3) THEN t4 ELSE t

\* NodeTree::create_struct
create_struct(t, par, nm) == create_with_parent(t, par, Node(Some(nm), RecStruct))

\* NodeTree::create_struct_member
create_struct_member(t, par, nm, nid_type) ==
    LET nid == t.next_id
        t1  == create_with_parent(t, Some(par), Node(Some(nm), RecStructMember))
    IN  child(t1, nid, nid_type)

\* NodeTree::create_enum
create_enum(t, par, nm, nid_key_type) ==
    create_with_parent(t, par, Node(Some(nm), RecEnum(Id(nid_key_type))))

\* NodeTree::create_enum_member
create_enum_member(t, par, nm, value) ==
    create_with_parent(t, Some(par), Node(Some(nm), RecEnumItem(value)))

\* NodeTree::create_tuple
create_tuple(t, par) == create_with_parent(t, par, new_anonymous(RecTuple))

\* NodeTree::create_tuple_member
create_tuple_member(t, par, ty) ==
    create_with_parent(t, Some(par), new_anonymous(RecTupleMember(Id(ty))))

-----------------------------------------------------------------------------
(* recipe.rs and bakery-derive: the recipe a Rust type builds for itself.   *)
(* A type is written [h, nm, bits, signed, args, names]: h is the impl that *)
(* applies, args the types it is made of, names the field or variant names. *)

HostType(h, nm, bits, signed, args, names) ==
    [h |-> h, nm |-> nm, bits |-> bits, signed |-> signed, args |-> args, names |-> names]
H_int(nm, bits, signed) == HostType("int", nm, bits, signed, << >>, << >>)
H_u8 == H_int("u8", 8, FALSE)
H_i32 == H_int("i32", 32, TRUE)
H_bool == HostType("bool", "bool", 0, FALSE, << >>, << >>)
H_Vec(T) == HostType("Vec", "", 0, FALSE, <<T>>, << >>)
H_Tuple(args) == HostType("Tuple", "", 0, FALSE, args, << >>)
\* #[derive(Recipe)] struct { names[i]: args[i] }
H_Struct(names, args) == HostType("Struct", "S", 0, FALSE, args, names)
\* a variant of a derived enum: unit when it has no fields, else a tuple variant
H_Variant(fields) == HostType("Variant", "", 0, FALSE, fields, << >>)
\* #[derive(Recipe)] enum { names[i](args[i].args) }
H_Enum(names, variants) == HostType("Enum", "E", 0, FALSE, variants, names)

RECURSIVE recipe(_, _), recipe_tuple_members(_, _, _, _), recipe_struct_fields(_, _, _, _),
          recipe_enum_variants(_, _, _, _, _), recipe_variant_fields(_, _, _, _)

\* tuple_impls!: each member type builds its recipe, then the member is created
recipe_tuple_members(t, nid, args, i) ==
    IF i > Len(args) \/ ~Built(t) THEN t
    ELSE LET r == recipe(t, args[i])
         IN  recipe_tuple_members(
                 create_with_parent(r.t, Some(nid),
                                    new_anonymous(RecTupleMember(Id(r.nid)))),
                 nid, args, i + 1)

\* recipe_token_stream, Data::Struct: nid_ty, then create_struct_member
recipe_struct_fields(t, nid, ty, i) ==
    IF i > Len(ty.args) \/ ~Built(t) THEN t
    ELSE LET r == recipe(t, ty.args[i])
         IN  recipe_struct_fields(create_struct_member(r.t, nid, ty.names[i], r.nid),
                                  nid, ty, i + 1)

\* recipe_token_stream, Fields::Unnamed: nid_ty, then create_tuple_member
recipe_variant_fields(t, nid_tuple, fields, i) ==
    IF i > Len(fields) \/ ~Built(t) THEN t
    ELSE LET r == recipe(t, fields[i])
         IN  recipe_variant_fields(create_tuple_member(r.t, nid_tuple, r.nid),
                                   nid_tuple, fields, i + 1)

\* recipe_token_stream, Data::Enum: next_enum_value is passed as it is, never stepped
recipe_enum_variants(t, nid, ty, i, next_enum_value) ==
    IF i > Len(ty.args) \/ ~Built(t) THEN t
    ELSE LET nid_variant == t.next_id
             t1 == create_enum_member(t, nid, ty.names[i], BigFrom(next_enum_value))
             fields == ty.args[i].args
             nid_tuple == t1.next_id
             t2 == IF fields = << >> THEN t1
                   ELSE recipe_variant_fields(create_tuple(t1, Some(nid_variant)),
                                              nid_tuple, fields, 1)
         IN  recipe_enum_variants(t2, nid, ty, i + 1, next_enum_value)

\* Recipe::recipe of the type ty: the tree it leaves and the node it returns
recipe(t, ty) ==
    CASE ty.h = "int" ->
            [nid |-> t.next_id, t |-> create(t, new_builtin(ty.nm, RecInt(ty.bits, ty.signed)))]
      [] ty.h = "bool" -> bool_recipe(t)
      [] ty.h = "Vec" ->
            LET r   == recipe(t, ty.args[1])
                nid == r.t.next_id
                t1  == create(r.t, new_anonymous(RecList))
            IN  [nid |-> nid, t |-> child(t1, nid, r.nid)]
      [] ty.h = "Tuple" ->
            LET nid == t.next_id
                t1  == create(t, new_anonymous(RecTuple))
            IN  [nid |-> nid, t |-> recipe_tuple_members(t1, nid, ty.args, 1)]
      [] ty.h = "Struct" ->
            LET nid == t.next_id
                t1  == create_struct(t, None, ty.nm)
            IN  [nid |-> nid, t |-> recipe_struct_fields(t1, nid, ty, 1)]
      [] ty.h = "Enum" ->
            LET r   == recipe(t, H_i32)
                nid == r.t.next_id
                t1  == create_enum(r.t, None, ty.nm, r.nid)
            IN  [nid |-> nid, t |-> recipe_enum_variants(t1, nid, ty, 1, 0)]

-----------------------------------------------------------------------------
(* The parse pairs the grammar hands to the tree builders.  A pair is      *)
(* [rule, id, gen, text, kids]: id is the identifier or path it carries    *)
(* (an Option), gen the declared generic parameter names, text the matched *)
(* literal of an int or float, kids the inner pairs.                       *)

Pair(rule, id, gen, text, kids) ==
    [rule |-> rule, id |-> id, gen |-> gen, text |-> text, kids |-> kids]

P_inst(path, args) == Pair("rec_type_inst", Some(path), << >>, << >>, args)
P_type(path) == P_inst(path, << >>)
P_struct(nm, gen, decls) == Pair("rec_struct", nm, gen, << >>, decls)
P_body(decls) == Pair("rec_struct_anonymous", None, << >>, << >>, decls)
P_member(nm, ty) == Pair("member", Some(nm), << >>, << >>, <<ty>>)
P_enum(nm, items) == Pair("rec_enum", nm, << >>, << >>, items)
P_item(nm, payload) == Pair("rec_enum_item", Some(nm), << >>, << >>, payload)
P_item_tuple(types) == Pair("rec_enum_tuple", None, << >>, << >>, types)
P_item_struct(decls) == Pair("rec_struct_declarations", None, << >>, << >>, decls)
P_tuple(types) == Pair("rec_tuple", None, << >>, << >>, types)
P_tid(path) == Pair("type_identifier", Some(path), << >>, << >>, << >>)

D_int(text) == Pair("int", None, << >>, text, << >>)
D_float(text) == Pair("float", None, << >>, text, << >>)
D_map(entries) == Pair("dat_map", None, << >>, << >>, entries)
D_assign(k, v) == Pair("dat_map_assignment", None, << >>, << >>, <<k, v>>)
D_tuple(vals) == Pair("dat_tuple", None, << >>, << >>, vals)
D_list(vals) == Pair("dat_list", None, << >>, << >>, vals)
D_enum(nm, payload) == Pair("dat_enum", Some(nm), << >>, << >>, payload)
D_id(nm) == D_enum(nm, << >>)

-----------------------------------------------------------------------------
(* lib.rs: the tree builders parse_rec_* and parse_dat_*.  Each returns the *)
(* grown tree and the id of the node it created.                           *)

RECURSIVE parse_rec_type(_, _), parse_rec_type_inst(_, _), parse_rec_type_args(_, _, _, _),
          parse_rec_struct(_, _), parse_rec_generic_decl(_, _, _, _),
          parse_rec_struct_declarations(_, _, _, _), parse_rec_struct_declaration(_, _),
          parse_rec_enum(_, _), parse_rec_enum_items(_, _, _, _),
          parse_rec_tuple(_, _), parse_rec_tuple_members(_, _, _, _)

parse_rec_type(t, pair) ==
    CASE pair.rule = "rec_type_inst" -> parse_rec_type_inst(t, pair)
      [] pair.rule \in {"rec_struct", "rec_struct_anonymous"} -> parse_rec_struct(t, pair)
      [] pair.rule \in {"rec_enum", "rec_enum_anonymous"} -> parse_rec_enum(t, pair)
      [] pair.rule \in {"rec_tuple", "rec_enum_tuple"} -> parse_rec_tuple(t, pair)

parse_rec_type_args(t, nid, args, i) ==
    IF i > Len(args) \/ ~Built(t) THEN t
    ELSE LET r == parse_rec_type_inst(t, args[i])
         IN  parse_rec_type_args(child(r.t, nid, r.nid), nid, args, i + 1)

parse_rec_type_inst(t, pair) ==
    LET nid == t.next_id
        t1  == create(t, Node(None, RecTypeInst(Path(Unwrap(pair.id)))))
    IN  [nid |-> nid, t |-> parse_rec_type_args(t1, nid, pair.kids, 1)]

parse_rec_generic_decl(t, struct_nid, gen, arg_index) ==
    IF arg_index >= Len(gen) THEN t
    ELSE parse_rec_generic_decl(
            create_with_parent(t, Some(struct_nid),
                               Node(Some(gen[arg_index + 1]), RecGeneric(arg_index))),
            struct_nid, gen, arg_index + 1)

parse_rec_struct_declarations(t, inner, par, i) ==
    IF i > Len(inner) \/ ~Built(t) THEN t
    ELSE LET r == parse_rec_struct_declaration(t, inner[i])
         IN  parse_rec_struct_declarations(child(r.t, par, r.nid), inner, par, i + 1)

parse_rec_struct(t, pair) ==
    LET id == t.next_id
        t1 == create(t, Node(pair.id, RecStruct))
        t2 == parse_rec_generic_decl(t1, id, pair.gen, 0)
    IN  [nid |-> id, t |-> parse_rec_struct_declarations(t2, pair.kids, id, 1)]

parse_rec_struct_declaration(t, pair) ==
    CASE pair.rule = "member" ->
            LET struct_nid == t.next_id
                t1 == create(t, Node(pair.id, RecStructMember))
                r  == parse_rec_type(t1, pair.kids[1])
            IN  [nid |-> struct_nid, t |-> child(r.t, struct_nid, r.nid)]
      [] pair.rule = "rec_struct" -> parse_rec_struct(t, pair)
      [] pair.rule = "rec_enum" -> parse_rec_enum(t, pair)

parse_rec_tuple_members(t, tuple_nid, inner, i) ==
    IF i > Len(inner) \/ ~Built(t) THEN t
    ELSE parse_rec_tuple_members(
            create_with_parent(t, Some(tuple_nid),
                               Node(None, RecTupleMember(Path(Unwrap(inner[i].id))))),
            tuple_nid, inner, i + 1)

parse_rec_tuple(t, pair) ==
    LET tuple_nid == t.next_id
        t1 == create(t, Node(None, RecTuple))
    IN  [nid |-> tuple_nid, t |-> parse_rec_tuple_members(t1, tuple_nid, pair.kids, 1)]

parse_rec_enum_items(t, enum_nid, items, i) ==
    IF i > Len(items) \/ ~Built(t) THEN t
    ELSE LET enum_item_nid == t.next_id
             t1 == create_with_parent(t, Some(enum_nid),
                                      Node(items[i].id, RecEnumItem(BigFrom(0))))
             inner == items[i].kids
             t2 == IF inner = << >> THEN t1
                   ELSE IF inner[1].rule = "rec_enum_tuple"
                   THEN LET r == parse_rec_tuple(t1, inner[1])
                        IN  child(r.t, enum_item_nid, r.nid)
                   ELSE LET struct_nid == t1.next_id
                            t3 == create_with_parent(t1, Some(enum_item_nid),
                                                     Node(None, RecStruct))
                        IN  parse_rec_struct_declarations(t3, inner[1].kids, struct_nid, 1)
         IN  parse_rec_enum_items(t2, enum_nid, items, i + 1)

parse_rec_enum(t, pair) ==
    LET enum_nid == t.next_id
        t1 == create(t, Node(pair.id, RecEnum(Path("i32"))))
    IN  [nid |-> enum_nid, t |-> parse_rec_enum_items(t1, enum_nid, pair.kids, 1)]

RECURSIVE parse_dat_value(_, _), parse_dat_map(_, _), parse_dat_map_entries(_, _, _, _),
          parse_dat_map_assignment(_, _), parse_dat_tuple_or_list(_, _, _),
          parse_dat_items(_, _, _, _), parse_dat_enum(_, _)

parse_dat_primitive_value(t, pair) ==
    [t |-> create(t, Node(None, IF pair.rule = "int" THEN DatInt(pair.text)
                                ELSE DatFloat(pair.text))),
     nid |-> t.next_id]

parse_dat_value(t, pair) ==
    CASE pair.rule \in {"int", "float"} -> parse_dat_primitive_value(t, pair)
      [] pair.rule = "dat_map" -> parse_dat_map(t, pair)
      [] pair.rule = "dat_enum" -> parse_dat_enum(t, pair)
      [] pair.rule = "dat_tuple" -> parse_dat_tuple_or_list(t, pair, DatTuple)
      [] pair.rule = "dat_list" -> parse_dat_tuple_or_list(t, pair, DatList)

parse_dat_map_entries(t, node, inner, i) ==
    IF i > Len(inner) \/ ~Built(t) THEN t
    ELSE LET r == parse_dat_map_assignment(t, inner[i])
         IN  parse_dat_map_entries(child(r.t, node, r.nid), node, inner, i + 1)

parse_dat_map(t, pair) ==
    LET node == t.next_id
        t1 == create(t, Node(None, DatMap))
    IN  [nid |-> node, t |-> parse_dat_map_entries(t1, node, pair.kids, 1)]

parse_dat_map_assignment(t, pair) ==
    LET k   == parse_dat_value(t, pair.kids[1])
        v   == parse_dat_value(k.t, pair.kids[2])
        nid == v.t.next_id
        t1  == create(v.t, Node(None, DatMapAssignment))
    IN  [nid |-> nid, t |-> child(child(t1, nid, k.nid), nid, v.nid)]

parse_dat_items(t, node, inner, i) ==
    IF i > Len(inner) \/ ~Built(t) THEN t
    ELSE LET r == parse_dat_value(t, inner[i])
         IN  parse_dat_items(child(r.t, node, r.nid), node, inner, i + 1)

parse_dat_tuple_or_list(t, pair, content) ==
    LET node == t.next_id
        t1 == create(t, Node(None, content))
    IN  [nid |-> node, t |-> parse_dat_items(t1, node, pair.kids, 1)]

parse_dat_enum(t, pair) ==
    LET node == t.next_id
        t1 == create(t, Node(pair.id, DatEnum))
    IN  IF pair.kids = << >> THEN [nid |-> node, t |-> t1]
        ELSE LET r == IF pair.kids[1].rule = "dat_tuple"
                      THEN parse_dat_tuple_or_list(t1, pair.kids[1], DatTuple)
                      ELSE parse_dat_map(t1, pair.kids[1])
             IN  [nid |-> node, t |-> child(r.t, node, r.nid)]

-----------------------------------------------------------------------------
(* lib.rs: diagnostics (CompilationError) *)

E_node(k, nid) == [kind |-> k, node |-> nid]
E_UnresolvedType(path, nid) == [kind |-> "UnresolvedType", path |-> path, node |-> nid]
E_GenericArgCountMismatch(nid, expected, current) ==
    [kind |-> "GenericArgCountMismatch", node |-> nid,
     expected |-> expected, current |-> current]
E_EnumUndefinedName(node_enum, node_name) ==
    [kind |-> "EnumUndefinedName", node |-> node_enum, node_name |-> node_name]
E_TupleSizeMismatch(node_tuple, node_data) ==
    [kind |-> "TupleSizeMismatch", node |-> node_tuple, node_data |-> node_data]
E_ParseError(k) == [kind |-> k]
E_IOError == [kind |-> "IOError"]

-----------------------------------------------------------------------------
(* lib.rs: the resolver *)

CountGeneric(t, ids) == Cardinality({i \in 1..Len(ids) : kind(t, ids[i]) = "RecGeneric"})

number_of_generic_typesMutChildren(t, nid) ==
    IF kind(t, nid) \in {"RecStruct", "RecList", "RecMap"}
    THEN Len(children(t, nid))
    ELSE 0

\* NodeTree::number_of_generic_types
number_of_generic_types(t, nid) ==
    IF kind(t, nid) \in {"RecStruct", "RecList", "RecMap"}
    THEN CountGeneric(t, children(t, nid))
    ELSE 0

FindNamed(t, ids, nm) ==
    LET hits == {i \in 1..Len(ids) : name(t, ids[i]) = Some(nm)}
    IN  IF hits = {} THEN None
        ELSE Some(ids[CHOOSE i \in hits : \A j \in hits : i <= j])

RECURSIVE resolve_typename(_, _, _)
resolve_typenameMutOutermost(t, scope, typename) ==
    LET k == kind(t, scope)
        up == IF IsSome(parent(t, scope))
              THEN resolve_typename(t, Unwrap(parent(t, scope)), typename)
              ELSE None
    IN  CASE k = "RecStruct" ->
                LET hit == FindNamed(t, children(t, scope), typename)
                IN  IF IsSome(up) THEN up ELSE hit
          [] k \in {"RecStructMember", "RecTupleMember", "RecEnum",
                    "RecTuple", "RecTypeInst", "RecEnumItem"} -> up
          [] OTHER -> None

\* Compiler::resolve_typename.  A RecTuple, RecTypeInst or RecEnumItem scope
\* unwraps its parent: every such node that holds a path, or lies above one,
\* has a parent in the trees built here, so the walk goes up as for the others.
resolve_typename(t, scope, typename) ==
    LET k == kind(t, scope)
        up == IF IsSome(parent(t, scope))
              THEN resolve_typename(t, Unwrap(parent(t, scope)), typename)
              ELSE None
    IN  CASE k = "RecStruct" ->
                LET hit == FindNamed(t, children(t, scope), typename)
                IN  IF IsSome(hit) THEN hit ELSE up
          [] k \in {"RecStructMember", "RecTupleMember", "RecEnum",
                    "RecTuple", "RecTypeInst", "RecEnumItem"} -> up
          [] OTHER -> None

resolve_type_idMutSilent(st, tid, nid) ==
    IF IsId(tid) THEN [st |-> st, tid |-> tid]
    ELSE LET r == resolve_typename(st.t, nid, Unwrap(tid.path))
         IN  IF IsSome(r) THEN [st |-> st, tid |-> Id(Unwrap(r))]
             ELSE [st |-> st, tid |-> tid]

\* Compiler::resolve_type_id on [t, errors]; returns the state and the resolved RecTypeId
resolve_type_id(st, tid, nid) ==
    IF IsId(tid) THEN [st |-> st, tid |-> tid]
    ELSE LET r == resolve_typename(st.t, nid, Unwrap(tid.path))
         IN  IF IsSome(r) THEN [st |-> st, tid |-> Id(Unwrap(r))]
             ELSE [st  |-> [st EXCEPT !.errors =
                                Append(@, E_UnresolvedType(Unwrap(tid.path), nid))],
                   tid |-> tid]

RECURSIVE resolve_types(_, _), resolve_children(_, _, _), resolve_enum_items(_, _, _, _, _)

resolve_children(st, ids, i) ==
    IF i > Len(ids) \/ ~Built(st.t) THEN st
    ELSE resolve_children(resolve_types(st, ids[i]), ids, i + 1)

\* the loop of resolve_types over the items of an enum whose key type is a RecInt
resolve_enum_items(st, ids, i, next_value, key) ==
    IF i > Len(ids) \/ ~Built(st.t) THEN st
    ELSE LET child_id == ids[i]
             b   == int_bounds(key.bit_size, key.signed)
             ok  == BigGe(next_value, b.min) /\ BigLe(next_value, b.max)
             st1 == IF ok
                    THEN [st EXCEPT !.t = set_content(@, child_id, RecEnumItem(next_value))]
                    ELSE [st EXCEPT !.errors =
                              Append(@, E_node("EnumValueOutOfBounds", child_id))]
             nv  == IF ok THEN BigInc(next_value) ELSE next_value
             dt  == unique_child_or_none(st1.t, child_id)
             st2 == IF IsSome(dt) THEN resolve_types(st1, Unwrap(dt)) ELSE st1
         IN  resolve_enum_items(st2, ids, i + 1, nv, key)

\* Compiler::resolve_types on [t, errors]
resolve_types(st, nid) ==
    LET c == get(st.t, nid).content
    IN  CASE c.kind \in {"RecStruct", "RecTuple", "RecStructMember"} ->
                resolve_children(st, children(st.t, nid), 1)
          [] c.kind = "RecTupleMember" ->
                LET r == resolve_type_id(st, c.tid, nid)
                IN  [r.st EXCEPT !.t = set_content(@, nid, RecTupleMember(r.tid))]
          [] c.kind = "RecEnum" ->
                LET r   == resolve_type_id(st, c.key_type, nid)
                    st1 == [r.st EXCEPT !.t = set_content(@, nid, RecEnum(r.tid))]
                IN  IF ~IsId(r.tid) THEN st1
                    ELSE LET rec_type == get(st1.t, unwrap_id(r.tid)).content
                         IN  IF rec_type.kind = "RecInt"
                             THEN resolve_enum_items(st1, children(st1.t, nid), 1,
                                                     BigFrom(0), rec_type)
                             ELSE [st1 EXCEPT !.errors =
                                      Append(@, E_node("EnumTypeIsNotInt",
                                                       unwrap_id(r.tid)))]
          [] c.kind = "RecTypeInst" ->
                LET r   == resolve_type_id(st, c.tid, nid)
                    st1 == [r.st EXCEPT !.t = set_content(@, nid, RecTypeInst(r.tid))]
                    ch  == children(st1.t, nid)
                    st2 == resolve_children(st1, ch, 1)
                IN  IF ~IsId(r.tid) THEN st2
                    ELSE LET expected_arg_count ==
                                 number_of_generic_types(st2.t, unwrap_id(r.tid))
                             current_arg_count == Len(ch)
                         IN  IF current_arg_count # expected_arg_count
                             THEN [st2 EXCEPT !.errors =
                                      Append(@, E_GenericArgCountMismatch(
                                          nid, expected_arg_count, current_arg_count))]
                             ELSE st2
          [] OTHER -> st

-----------------------------------------------------------------------------
(* lib.rs: the emitter.  Compiler::write recurses; here the recursion is   *)
(* unfolded into steps over an agenda of pending work, the continuation of *)
(* the running calls: "write" is a call of write(rec, dat) still to make,  *)
(* "pop" the generic_stack.pop() of a RecTypeInst, "ret" the Ok return of  *)
(* an open call, "error" a diagnostic recorded after a nested call and     *)
(* "panic" an assertion that fails at that point.  w = [out, fails,        *)
(* errors, gs] is what emission changes: the sink's bytes, the number of   *)
(* failed sink writes, the diagnostics and the generic_stack.              *)

MaxIoFailures == 1
MaxDepth == 20

Task(op, rec, dat, call, err) ==
    [op |-> op, rec |-> rec, dat |-> dat, call |-> call, err |-> err]
T_write(rec, dat, call) == Task("write", rec, dat, call, << >>)
T_pop == Task("pop", 0, 0, 0, << >>)
T_ret(call) == Task("ret", 0, 0, call, << >>)
T_error(err) == Task("error", 0, 0, 0, <<err>>)
T_panic == Task("panic", 0, 0, 0, << >>)

\* the outcome of the first step of a call: res is "ok" (returned Ok), "open" (nested
\* calls pushed, the return pending), "ioerr" (returned Err) or "panic"
Out(w, res, push) == [w |-> w, res |-> res, push |-> push]
AddError(w, err) == [w EXCEPT !.errors = Append(@, err)]

\* io.write(bytes) on the sink, which takes all the bytes or fails
SinkWrite(w, bytes, io_ok) ==
    IF io_ok THEN [w EXCEPT !.out = @ \o bytes] ELSE [w EXCEPT !.fails = @ + 1]

\* Compiler::write_int with write_int_check_bounds: any Err, the sink's too, is
\* recorded as ValueOutOfBounds
write_int(t, w, dat_nid, bit_size, signed, io_ok) ==
    LET c == get(t, dat_nid).content
    IN  IF c.kind = "DatInt"
        THEN LET int == parse_bytes(c.repr)
             IN  IF InBounds(bit_size, signed, int)
                 THEN IF io_ok
                      THEN SinkWrite(w, IntBytes(bit_size, signed, int), TRUE)
                      ELSE AddError(SinkWrite(w, << >>, FALSE),
                                    E_node("ValueOutOfBounds", dat_nid))
                 ELSE AddError(w, E_node("ValueOutOfBounds", dat_nid))
        ELSE AddError(w, E_node("ExpectedDatInt", dat_nid))

\* f32/f64 parse and to_le_bytes, on the literals the inputs use
FloatBytes(repr, bit_size) ==
    IF bit_size = 32
    THEN CASE repr = <<"0">> -> <<0, 0, 0, 0>>
           [] repr = <<"1">> -> <<0, 0, 128, 63>>
           [] repr = <<"-", "2", ".", "5">> -> <<0, 0, 32, 192>>
           [] repr = <<"i", "n", "f">> -> <<0, 0, 128, 127>>
    ELSE CASE repr = <<"0">> -> <<0, 0, 0, 0, 0, 0, 0, 0>>
           [] repr = <<"1">> -> <<0, 0, 0, 0, 0, 0, 240, 63>>
           [] repr = <<"-", "2", ".", "5">> -> <<0, 0, 0, 0, 0, 0, 4, 192>>
           [] repr = <<"i", "n", "f">> -> <<0, 0, 0, 0, 0, 0, 240, 127>>

\* Compiler::write_float
write_float(t, w, dat_nid, bit_size, io_ok) ==
    LET c == get(t, dat_nid).content
    IN  IF c.kind \in {"DatInt", "DatFloat"}
        THEN IF bit_size \notin {32, 64} THEN Out(w, "panic", << >>)
             ELSE Out(SinkWrite(w, FloatBytes(c.repr, bit_size), io_ok),
                      IF io_ok THEN "ok" ELSE "ioerr", << >>)
        ELSE Out(AddError(w, E_node("ExpectedDatFloat", dat_nid)), "ok", << >>)

UsizeBytesMut32(n) == PadTo(to_bytes_le(BigFrom(n)), 4, 0)

\* usize::to_le_bytes of a length, on the 64-bit target
UsizeBytes(n) == PadTo(to_bytes_le(BigFrom(n)), 8, 0)

\* Compiler::write_list
write_list(t, w, rec_nid, dat_nid, call, io_ok) ==
    IF unique_child_panics(t, rec_nid) THEN Out(w, "panic", << >>)
    ELSE LET item_type_nid == unique_child(t, rec_nid)
             items == children(t, dat_nid)
         IN  IF ~io_ok THEN Out(SinkWrite(w, << >>, FALSE), "ioerr", << >>)
             ELSE Out(SinkWrite(w, UsizeBytes(Len(items)), TRUE), "open",
                      [i \in 1..Len(items) |-> T_write(item_type_nid, items[i], call)]
                      \o <<T_ret(call)>>)

\* Compiler::write_map
write_map(t, w, rec_nid, dat_nid, call, io_ok) ==
    LET generic_args == children(t, rec_nid)
        items == children(t, dat_nid)
        bad   == {i \in 1..Len(items) : Len(children(t, items[i])) # 2}
        n     == IF bad = {} THEN Len(items)
                 ELSE (CHOOSE i \in bad : \A j \in bad : i <= j) - 1
    IN  IF Len(generic_args) # 2 THEN Out(w, "panic", << >>)
        ELSE IF ~io_ok THEN Out(SinkWrite(w, << >>, FALSE), "ioerr", << >>)
        ELSE Out(SinkWrite(w, UsizeBytes(Len(items)), TRUE), "open",
                 [k \in 1..(2 * n) |->
                     T_write(generic_args[2 - (k % 2)],
                             children(t, items[(k + 1) \div 2])[2 - (k % 2)], call)]
                 \o (IF bad = {} THEN <<T_ret(call)>> ELSE <<T_panic>>))

BadEntriesMutNone(t, dat_node) == << >>

\* the entries of a DatMap that write_struct rejects, in data order
BadEntries(t, dat_node) ==
    LET IsBad(nid_child) ==
            IF kind(t, nid_child) = "DatMapAssignment"
            THEN Len(children(t, children(t, nid_child)[1])) # 0
            ELSE TRUE
    IN  SelectSeq(children(t, dat_node), IsBad)

StructMembersMutReversed(t, rec_node) ==
    LET IsMember(c) == kind(t, c) = "RecStructMember"
        ms == SelectSeq(children(t, rec_node), IsMember)
    IN  [i \in 1..Len(ms) |-> ms[Len(ms) + 1 - i]]

\* the children of a RecStruct that write_struct emits, in schema order
StructMembers(t, rec_node) ==
    LET IsMember(c) == kind(t, c) = "RecStructMember"
    IN  SelectSeq(children(t, rec_node), IsMember)

\* Compiler::write_struct
write_struct(t, w, rec_node, dat_node, call) ==
    IF kind(t, dat_node) = "DatMap"
    THEN LET bad == BadEntries(t, dat_node)
             w1  == [w EXCEPT !.errors =
                        @ \o [i \in 1..Len(bad) |-> E_node("ExpectedDatIdentifier", bad[i])]]
             ms  == StructMembers(t, rec_node)
         IN  IF bad # << >> THEN Out(w1, "ok", << >>)
             ELSE IF \E i \in 1..Len(children(t, rec_node)) :
                        kind(t, children(t, rec_node)[i]) \in
                            {"RecEnumItem", "RecTupleMember", "DatMap", "DatMapAssignment",
                             "DatInt", "DatFloat", "DatEnum", "DatTuple", "DatList"}
             THEN Out(w, "panic", << >>)
             ELSE Out(w, "open",
                      [i \in 1..Len(ms) |-> T_write(ms[i], dat_node, call)]
                      \o <<T_ret(call)>>)
    ELSE Out(AddError(w, E_node("DataNotStruct", dat_node)), "ok", << >>)

CandidatesMutStray(t, rec_nid, dat_nid) ==
    LET ms == children(t, Unwrap(parent(t, rec_nid)))
        Matches(a) ==
            \/ name(t, children(t, a)[1]) = name(t, rec_nid)
            \/ \A i \in 1..Len(ms) : name(t, children(t, a)[1]) # name(t, ms[i])
    IN  SelectSeq(children(t, dat_nid), Matches)

CandidatesMutAny(t, rec_nid, dat_nid) == children(t, dat_nid)

CandidatesMutReversed(t, rec_nid, dat_nid) ==
    LET Matches(a) == name(t, children(t, a)[1]) = name(t, rec_nid)
        cs == SelectSeq(children(t, dat_nid), Matches)
    IN  [i \in 1..Len(cs) |-> cs[Len(cs) + 1 - i]]

\* the entries of the DatMap whose key carries the member's name, in data order
Candidates(t, rec_nid, dat_nid) ==
    LET Matches(a) == name(t, children(t, a)[1]) = name(t, rec_nid)
    IN  SelectSeq(children(t, dat_nid), Matches)

\* Compiler::write_struct_member
write_struct_member(t, w, rec_nid, dat_nid, rec_type_id, call) ==
    IF kind(t, dat_nid) = "DatMap"
    THEN IF \E i \in 1..Len(children(t, dat_nid)) :
                Len(children(t, children(t, dat_nid)[i])) # 2
         THEN Out(w, "panic", << >>)
         ELSE LET candidates == Candidates(t, rec_nid, dat_nid)
              IN  IF candidates # << >>
                  THEN Out(w, "open",
                           <<T_write(rec_type_id, children(t, candidates[1])[2], call)>>
                           \o [i \in 1..(Len(candidates) - 1) |->
                                  T_error(E_node("RedefinedValue", candidates[i + 1]))]
                           \o <<T_ret(call)>>)
                  ELSE Out(AddError(w, E_node("UndefinedValue", rec_nid)), "ok", << >>)
    ELSE Out(AddError(w, E_node("ExpectedDatStruct", dat_nid)), "ok", << >>)

write_tupleMutZips(t, w, rec_node, dat_node, call) ==
    LET tuple_children == children(t, rec_node)
        data_children  == children(t, dat_node)
        n == IF Len(tuple_children) < Len(data_children)
             THEN Len(tuple_children) ELSE Len(data_children)
    IN  IF \E i \in 1..n :
                \/ kind(t, tuple_children[i]) # "RecTupleMember"
                \/ unwrap_id_panics(get(t, tuple_children[i]).content.tid)
        THEN Out(w, "panic", << >>)
        ELSE Out(w, "open",
                 [i \in 1..n |->
                     T_write(unwrap_id(get(t, tuple_children[i]).content.tid),
                             data_children[i], call)]
                 \o <<T_ret(call)>>)

\* Compiler::write_tuple
write_tuple(t, w, rec_node, dat_node, call) ==
    LET tuple_children == children(t, rec_node)
        data_children  == children(t, dat_node)
    IN  IF Len(tuple_children) # Len(data_children)
        THEN Out(AddError(w, E_TupleSizeMismatch(rec_node, dat_node)), "ok", << >>)
        ELSE IF \E i \in 1..Len(tuple_children) :
                    \/ kind(t, tuple_children[i]) # "RecTupleMember"
                    \/ unwrap_id_panics(get(t, tuple_children[i]).content.tid)
        THEN Out(w, "panic", << >>)
        ELSE Out(w, "open",
                 [i \in 1..Len(tuple_children) |->
                     T_write(unwrap_id(get(t, tuple_children[i]).content.tid),
                             data_children[i], call)]
                 \o <<T_ret(call)>>)

FindItemMutDefault(t, rec_nid, dat_nid) ==
    LET ids  == children(t, rec_nid)
        hits == {i \in 1..Len(ids) : name(t, ids[i]) = name(t, dat_nid)}
    IN  IF ids = << >> THEN None
        ELSE IF hits = {} THEN Some(ids[Len(ids)])
        ELSE Some(ids[CHOOSE i \in hits : \A j \in hits : i <= j])

FindItemMutLast(t, rec_nid, dat_nid) ==
    LET ids  == children(t, rec_nid)
        hits == {i \in 1..Len(ids) : name(t, ids[i]) = name(t, dat_nid)}
    IN  IF hits = {} THEN None
        ELSE Some(ids[Len(ids)])

\* the first item of the enum that carries the data's name
FindItem(t, rec_nid, dat_nid) ==
    LET ids  == children(t, rec_nid)
        hits == {i \in 1..Len(ids) : name(t, ids[i]) = name(t, dat_nid)}
    IN  IF hits = {} THEN None
        ELSE Some(ids[CHOOSE i \in hits : \A j \in hits : i <= j])

write_enumMutPayloadChecked(t, w, rec_nid, dat_nid, rec_type_id, call, io_ok) ==
    IF kind(t, dat_nid) # "DatEnum" THEN Out(w, "panic", << >>)
    ELSE LET hit == FindItem(t, rec_nid, dat_nid)
         IN  IF ~IsSome(hit)
             THEN Out(AddError(w, E_EnumUndefinedName(rec_nid, dat_nid)), "ok", << >>)
             ELSE LET nid  == Unwrap(hit)
                      key  == get(t, rec_type_id).content
                      item == get(t, nid).content
                  IN  IF key.kind # "RecInt" \/ item.kind # "RecEnumItem"
                      THEN Out(w, "panic", << >>)
                      ELSE IF ~InBounds(key.bit_size, key.signed, item.value)
                      THEN Out(w, "panic", << >>)
                      ELSE IF ~io_ok
                      THEN Out(SinkWrite(w, << >>, FALSE), "ioerr", << >>)
                      ELSE LET w1 == SinkWrite(w, IntBytes(key.bit_size, key.signed,
                                                           item.value), TRUE)
                           IN  IF unique_child_or_none_panics(t, nid)
                               THEN Out(w1, "panic", << >>)
                               ELSE IF ~IsSome(unique_child_or_none(t, nid))
                               THEN Out(IF children(t, dat_nid) # << >>
                                        THEN AddError(w1, E_node("EnumUndefinedData", dat_nid))
                                        ELSE w1, "ok", << >>)
                               ELSE IF unique_child_or_none_panics(t, dat_nid)
                               THEN Out(w1, "panic", << >>)
                               ELSE IF IsSome(unique_child_or_none(t, dat_nid))
                               THEN Out(w1, "open",
                                        <<T_write(Unwrap(unique_child_or_none(t, nid)),
                                                  Unwrap(unique_child_or_none(t, dat_nid)),
                                                  call),
                                          T_ret(call)>>)
                               ELSE Out(AddError(w1, E_node("EnumUndefinedData", dat_nid)),
                                        "ok", << >>)

\* Compiler::write_enum
write_enum(t, w, rec_nid, dat_nid, rec_type_id, call, io_ok) ==
    IF kind(t, dat_nid) # "DatEnum" THEN Out(w, "panic", << >>)
    ELSE LET hit == FindItem(t, rec_nid, dat_nid)
         IN  IF ~IsSome(hit)
             THEN Out(AddError(w, E_EnumUndefinedName(rec_nid, dat_nid)), "ok", << >>)
             ELSE LET nid  == Unwrap(hit)
                      key  == get(t, rec_type_id).content
                      item == get(t, nid).content
                  IN  IF key.kind # "RecInt" \/ item.kind # "RecEnumItem"
                      THEN Out(w, "panic", << >>)
                      ELSE IF ~InBounds(key.bit_size, key.signed, item.value)
                      THEN Out(w, "panic", << >>)
                      ELSE IF ~io_ok
                      THEN Out(SinkWrite(w, << >>, FALSE), "ioerr", << >>)
                      ELSE LET w1 == SinkWrite(w, IntBytes(key.bit_size, key.signed,
                                                           item.value), TRUE)
                           IN  IF unique_child_or_none_panics(t, nid)
                               THEN Out(w1, "panic", << >>)
                               ELSE IF ~IsSome(unique_child_or_none(t, nid))
                               THEN Out(w1, "ok", << >>)
                               ELSE IF unique_child_or_none_panics(t, dat_nid)
                               THEN Out(w1, "panic", << >>)
                               ELSE IF IsSome(unique_child_or_none(t, dat_nid))
                               THEN Out(w1, "open",
                                        <<T_write(Unwrap(unique_child_or_none(t, nid)),
                                                  Unwrap(unique_child_or_none(t, dat_nid)),
                                                  call),
                                          T_ret(call)>>)
                               ELSE Out(AddError(w1, E_node("EnumUndefinedData", dat_nid)),
                                        "ok", << >>)

\* generic_stack.last().unwrap().get(index): None stands for either unwrap panicking
GenericLookup(gs, index) ==
    IF gs = << >> THEN None
    ELSE IF index + 1 > Len(gs[Len(gs)]) THEN None
    ELSE Some(gs[Len(gs)][index + 1])

\* Compiler::write: the dispatch on the recipe node, for the call numbered call
write(t, w, rec_node, dat_node, call, io_ok) ==
    LET c == get(t, rec_node).content
    IN  CASE c.kind = "RecInt" ->
                Out(write_int(t, w, dat_node, c.bit_size, c.signed, io_ok), "ok", << >>)
          [] c.kind = "RecFloat" -> write_float(t, w, dat_node, c.size, io_ok)
          [] c.kind = "RecList" -> write_list(t, w, rec_node, dat_node, call, io_ok)
          [] c.kind = "RecMap" -> write_map(t, w, rec_node, dat_node, call, io_ok)
          [] c.kind = "RecStruct" -> write_struct(t, w, rec_node, dat_node, call)
          [] c.kind = "RecTuple" -> write_tuple(t, w, rec_node, dat_node, call)
          [] c.kind = "RecStructMember" ->
                IF unique_child_panics(t, rec_node) THEN Out(w, "panic", << >>)
                ELSE write_struct_member(t, w, rec_node, dat_node,
                                         unique_child(t, rec_node), call)
          [] c.kind = "RecEnum" ->
                IF unwrap_id_panics(c.key_type) THEN Out(w, "panic", << >>)
                ELSE write_enum(t, w, rec_node, dat_node, unwrap_id(c.key_type),
                                call, io_ok)
          [] c.kind = "RecTypeInst" ->
                IF unwrap_id_panics(c.tid) THEN Out(w, "panic", << >>)
                ELSE IF may_be_generic(get(t, unwrap_id(c.tid)).content)
                THEN Out([w EXCEPT !.gs = Append(@, children(t, rec_node))], "open",
                         <<T_write(unwrap_id(c.tid), dat_node, call), T_pop, T_ret(call)>>)
                ELSE Out(w, "open",
                         <<T_write(unwrap_id(c.tid), dat_node, call), T_ret(call)>>)
          [] c.kind = "RecGeneric" ->
                LET type_nid == GenericLookup(w.gs, c.index)
                IN  IF ~IsSome(type_nid) THEN Out(w, "panic", << >>)
                    ELSE Out(w, "open",
                             <<T_write(Unwrap(type_nid), dat_node, call), T_ret(call)>>)
          [] OTHER -> Out(w, "panic", << >>)

-----------------------------------------------------------------------------
(* The inputs of compile.  A text is what the grammar makes of it: form is  *)
(* "type" for a recipe, "map_body" for a data text that is the body of a    *)
(* map and "value" for one that is a single value; complete says whether    *)
(* the start rule matched the whole text; pair is the matched pair.         *)

Text(form, complete, pair) == [form |-> form, complete |-> complete, pair |-> pair]
Rec(pair) == Text("type", TRUE, pair)
Val(pair) == Text("value", TRUE, pair)
Body(entries) == Text("map_body", TRUE, D_map(entries))
Digits(n) == IF n = 1 THEN <<"1">> ELSE IF n = 2 THEN <<"2">> ELSE IF n = 3 THEN <<"3">>
             ELSE IF n = 4 THEN <<"4">> ELSE <<"0">>
N(n) == D_int(Digits(n))

IntTypes == {"i8", "u8", "i16", "u16", "i32", "u32", "i64", "u64"}

\* literals every integer type is tried with
CommonLiterals ==
    { <<"0">>,
      <<"1">>,
      <<"-", "1">>,
      <<"4", "2">>,
      <<"-", "0">>,
      <<"0", "0", "7">> }

\* per type: min - 1, min, max, max + 1, and values far from the bounds
EdgeLiterals(ty) ==
    CASE ty = "i8" ->
        { <<"-", "1", "2", "9">>,
          <<"-", "1", "2", "8">>,
          <<"1", "2", "7">>,
          <<"1", "2", "8">>,
          <<"1", "8", "4", "4", "6", "7", "4", "4", "0", "7", "3", "7", "0", "9", "5", "5", "1", "6", "1", "6">>,
          <<"-", "9", "2", "2", "3", "3", "7", "2", "0", "3", "6", "8", "5", "4", "7", "7", "5", "8", "0", "9">> }
      [] ty = "u8" ->
        { <<"-", "1">>,
          <<"0">>,
          <<"2", "5", "5">>,
          <<"2", "5", "6">>,
          <<"1", "8", "4", "4", "6", "7", "4", "4", "0", "7", "3", "7", "0", "9", "5", "5", "1", "6", "1", "6">>,
          <<"-", "9", "2", "2", "3", "3", "7", "2", "0", "3", "6", "8", "5", "4", "7", "7", "5", "8", "0", "9">> }
      [] ty = "i16" ->
        { <<"-", "3", "2", "7", "6", "9">>,
          <<"-", "3", "2", "7", "6", "8">>,
          <<"3", "2", "7", "6", "7">>,
          <<"3", "2", "7", "6", "8">>,
          <<"-", "1", "2", "9">>,
          <<"1", "2", "8">> }
      [] ty = "u16" ->
        { <<"-", "1">>,
          <<"0">>,
          <<"6", "5", "5", "3", "5">>,
          <<"6", "5", "5", "3", "6">> }
      [] ty = "i32" ->
        { <<"-", "2", "1", "4", "7", "4", "8", "3", "6", "4", "9">>,
          <<"-", "2", "1", "4", "7", "4", "8", "3", "6", "4", "8">>,
          <<"2", "1", "4", "7", "4", "8", "3", "6", "4", "7">>,
          <<"2", "1", "4", "7", "4", "8", "3", "6", "4", "8">>,
          <<"-", "4", "5", "3", "9", "8", "1", "8", "1", "9">> }
      [] ty = "u32" ->
        { <<"-", "1">>,
          <<"0">>,
          <<"4", "2", "9", "4", "9", "6", "7", "2", "9", "5">>,
          <<"4", "2", "9", "4", "9", "6", "7", "2", "9", "6">>,
          <<"5", "5", "4", "5", "2", "4", "0", "8", "8">> }
      [] ty = "i64" ->
        { <<"-", "9", "2", "2", "3", "3", "7", "2", "0", "3", "6", "8", "5", "4", "7", "7", "5", "8", "0", "9">>,
          <<"-", "9", "2", "2", "3", "3", "7", "2", "0", "3", "6", "8", "5", "4", "7", "7", "5", "8", "0", "8">>,
          <<"9", "2", "2", "3", "3", "7", "2", "0", "3", "6", "8", "5", "4", "7", "7", "5", "8", "0", "7">>,
          <<"9", "2", "2", "3", "3", "7", "2", "0", "3", "6", "8", "5", "4", "7", "7", "5", "8", "0", "8">> }
      [] ty = "u64" ->
        { <<"-", "1">>,
          <<"0">>,
          <<"1", "8", "4", "4", "6", "7", "4", "4", "0", "7", "3", "7", "0", "9", "5", "5", "1", "6", "1", "5">>,
          <<"1", "8", "4", "4", "6", "7", "4", "4", "0", "7", "3", "7", "0", "9", "5", "5", "1", "6", "1", "6">> }

IntScenarios ==
    {[rec |-> Rec(P_type(sc[1])), dat |-> Val(D_int(sc[2]))] :
        sc \in UNION {{<<ty, l>> : l \in CommonLiterals \cup EdgeLiterals(ty)} : ty \in IntTypes}}

P_Vector ==
    P_struct(Some("Vector"), <<"T">>,
             <<P_member("x", P_type("T")), P_member("y", P_type("T"))>>)
P_Pair ==
    P_struct(Some("Pair"), <<"A", "B">>,
             <<P_member("a", P_type("A")), P_member("b", P_type("B"))>>)

\* struct { x: i32, y: i32 }
R_xy == Rec(P_struct(None, << >>,
                     <<P_member("x", P_type("i32")), P_member("y", P_type("i32"))>>))
\* x: List<u8>
R_list == Rec(P_body(<<P_member("x", P_inst("List", <<P_type("u8")>>))>>))
\* l: List<u8>, m: Map<u8, i32>
R_list_map ==
    Rec(P_body(<<P_member("l", P_inst("List", <<P_type("u8")>>)),
                 P_member("m", P_inst("Map", <<P_type("u8"), P_type("i32")>>))>>))
\* Map<u8, i32>
R_map == Rec(P_inst("Map", <<P_type("u8"), P_type("i32")>>))
\* enum { A(u32), B(bool), C(i32, bool), D }
R_enum ==
    Rec(P_enum(None, <<P_item("A", <<P_item_tuple(<<P_tid("u32")>>)>>),
                       P_item("B", <<P_item_tuple(<<P_tid("bool")>>)>>),
                       P_item("C", <<P_item_tuple(<<P_tid("i32"), P_tid("bool")>>)>>),
                       P_item("D", << >>)>>))
\* enum { A { a: u32 }, B { } }
R_enum_struct ==
    Rec(P_enum(None, <<P_item("A", <<P_item_struct(<<P_member("a", P_type("u32"))>>)>>),
                       P_item("B", <<P_item_struct(<< >>)>>)>>))
\* bool
R_bool == Rec(P_type("bool"))
\* (bool, u32)
R_tuple == Rec(P_tuple(<<P_tid("bool"), P_tid("u32")>>))
\* f32, f64
R_f32 == Rec(P_type("f32"))
R_f64 == Rec(P_type("f64"))
\* struct { struct Vector<T> { x: T, y: T }, v: Vector<i32>, w: Vector<bool> }
R_generic ==
    Rec(P_struct(None, << >>,
                 <<P_Vector,
                   P_member("v", P_inst("Vector", <<P_type("i32")>>)),
                   P_member("w", P_inst("Vector", <<P_type("bool")>>))>>))
\* struct { struct Vector<T> { x: T, y: T }, v: Vector<Vector<u32>> }
R_nested ==
    Rec(P_struct(None, << >>,
                 <<P_Vector,
                   P_member("v", P_inst("Vector",
                                        <<P_inst("Vector", <<P_type("u32")>>)>>))>>))
\* struct { struct Pair<A, B> { a: A, b: B }, p: Pair<Pair<u8, u16>, List<u8>> }
R_nested2 ==
    Rec(P_struct(None, << >>,
                 <<P_Pair,
                   P_member("p", P_inst("Pair",
                        <<P_inst("Pair", <<P_type("u8"), P_type("u16")>>),
                          P_inst("List", <<P_type("u8")>>)>>))>>))
\* struct { struct Vector<T> {..}, struct Outer<T> { v: Vector<T> }, o: Outer<u32> }
R_outer ==
    Rec(P_struct(None, << >>,
                 <<P_Vector,
                   P_struct(Some("Outer"), <<"T">>,
                            <<P_member("v", P_inst("Vector", <<P_type("T")>>))>>),
                   P_member("o", P_inst("Outer", <<P_type("u32")>>))>>))
\* struct { struct Pair<A, B> {..}, struct Outer<T> { p: Pair<u8, T> }, o: Outer<u16> }
R_outer_pair ==
    Rec(P_struct(None, << >>,
                 <<P_Pair,
                   P_struct(Some("Outer"), <<"T">>,
                            <<P_member("p", P_inst("Pair", <<P_type("u8"), P_type("T")>>))>>),
                   P_member("o", P_inst("Outer", <<P_type("u16")>>))>>))
\* struct { struct S<T> { l: List<T> }, s: S<u32> }
R_slist ==
    Rec(P_struct(None, << >>,
                 <<P_struct(Some("S"), <<"T">>,
                            <<P_member("l", P_inst("List", <<P_type("T")>>))>>),
                   P_member("s", P_inst("S", <<P_type("u32")>>))>>))
\* struct { x: Foo }: an unknown type
R_unresolved == Rec(P_struct(None, << >>, <<P_member("x", P_type("Foo"))>>))
\* List<u8, u8>: one generic argument too many
R_arity == Rec(P_inst("List", <<P_type("u8"), P_type("u8")>>))
\* i8 followed by text the grammar does not match
R_incomplete == Text("type", FALSE, P_type("i8"))

XY(a, b) == <<D_assign(D_id("x"), a), D_assign(D_id("y"), b)>>

OtherScenarios ==
    { [rec |-> R_xy, dat |-> Body(XY(N(1), N(2)))],
      [rec |-> R_xy, dat |-> Body(<<D_assign(D_id("y"), N(2)), D_assign(D_id("x"), N(1))>>)],
      [rec |-> R_xy, dat |-> Body(<<D_assign(D_id("x"), N(1))>>)],
      [rec |-> R_xy, dat |-> Body(<<D_assign(D_id("y"), N(2))>>)],
      [rec |-> R_xy, dat |-> Body(<<D_assign(D_id("x"), N(1)), D_assign(D_id("x"), N(3)),
                                    D_assign(D_id("y"), N(2)), D_assign(D_id("x"), N(5))>>)],
      [rec |-> R_xy, dat |-> Body(XY(N(1), N(2)) \o <<D_assign(D_id("x"), N(3))>>)],
      [rec |-> R_xy, dat |-> Val(N(1))],
      [rec |-> R_xy, dat |-> Text("map_body", FALSE, D_map(XY(N(1), N(2))))],
      [rec |-> R_list, dat |-> Body(<<D_assign(D_id("x"), D_list(<<N(1), N(2), N(3)>>))>>)],
      [rec |-> R_list, dat |-> Body(<<D_assign(D_id("x"), D_list(<< >>))>>)],
      [rec |-> R_map, dat |-> Val(D_map(<< >>))],
      [rec |-> R_map, dat |-> Val(D_map(<<D_assign(N(4), N(1)), D_assign(N(2), N(3))>>))],
      [rec |-> R_enum, dat |-> Val(D_enum("A", <<D_tuple(<<N(1)>>)>>))],
      [rec |-> R_enum, dat |-> Val(D_enum("C", <<D_tuple(<<D_int(<<"-", "2">>),
                                                             D_id("false")>>)>>))],
      [rec |-> R_enum, dat |-> Val(D_id("D"))],
      [rec |-> R_enum, dat |-> Val(D_id("E"))],
      [rec |-> R_enum, dat |-> Val(D_id("A"))],
      [rec |-> R_enum_struct,
       dat |-> Val(D_enum("A", <<D_map(<<D_assign(D_id("a"), N(4))>>)>>))],
      [rec |-> R_enum_struct, dat |-> Val(D_enum("B", <<D_map(<< >>)>>))],
      [rec |-> R_bool, dat |-> Val(D_id("true"))],
      [rec |-> R_bool, dat |-> Val(D_id("false"))],
      [rec |-> R_tuple, dat |-> Val(D_tuple(<<D_id("true"), N(3)>>))],
      [rec |-> R_tuple, dat |-> Val(D_tuple(<<D_id("true")>>))],
      [rec |-> R_f32, dat |-> Val(D_float(<<"-", "2", ".", "5">>))],
      [rec |-> R_f64, dat |-> Val(N(1))],
      [rec |-> R_generic,
       dat |-> Body(<<D_assign(D_id("v"), D_map(XY(N(1), N(2)))),
                      D_assign(D_id("w"), D_map(XY(D_id("false"), D_id("true"))))>>)],
      [rec |-> R_generic,
       dat |-> Body(<<D_assign(D_id("w"), D_map(XY(D_id("true"), D_id("false")))),
                      D_assign(D_id("v"), D_map(XY(N(3), N(4))))>>)],
      [rec |-> R_list_map,
       dat |-> Body(<<D_assign(D_id("l"), D_list(<<N(1), N(2)>>)),
                      D_assign(D_id("m"), D_map(<<D_assign(N(4), N(1)),
                                                  D_assign(N(2), N(3))>>))>>)],
      [rec |-> R_nested,
       dat |-> Body(<<D_assign(D_id("v"),
                        D_map(XY(D_map(XY(N(1), N(2))), D_map(XY(N(3), N(4))))))>>)],
      [rec |-> R_nested2,
       dat |-> Body(<<D_assign(D_id("p"),
                        D_map(<<D_assign(D_id("a"),
                                    D_map(<<D_assign(D_id("a"), N(1)),
                                            D_assign(D_id("b"), N(2))>>)),
                                D_assign(D_id("b"), D_list(<<N(3)>>))>>))>>)],
      [rec |-> R_outer,
       dat |-> Body(<<D_assign(D_id("o"),
                        D_map(<<D_assign(D_id("v"), D_map(XY(N(1), N(2))))>>))>>)],
      [rec |-> R_outer_pair,
       dat |-> Body(<<D_assign(D_id("o"),
                        D_map(<<D_assign(D_id("p"),
                                    D_map(<<D_assign(D_id("a"), N(1)),
                                            D_assign(D_id("b"), N(2))>>))>>))>>)],
      [rec |-> R_slist,
       dat |-> Body(<<D_assign(D_id("s"),
                        D_map(<<D_assign(D_id("l"), D_list(<<N(1), N(2)>>))>>))>>)],
      [rec |-> R_slist,
       dat |-> Body(<<D_assign(D_id("s"),
                        D_map(<<D_assign(D_id("l"), D_list(<< >>))>>))>>)],
      [rec |-> R_unresolved, dat |-> Body(<<D_assign(D_id("x"), N(1))>>)],
      [rec |-> R_arity, dat |-> Val(D_list(<<N(1)>>))],
      [rec |-> R_incomplete, dat |-> Val(N(1))] }

P_A(ty) == P_struct(Some("A"), << >>, <<P_member("x", P_type(ty))>>)
X(v) == D_map(<<D_assign(D_id("x"), v)>>)
\* struct { struct A { x: u8 }, struct B { struct A { x: u16 }, a: A }, b: B, a: A }
R_shadow ==
    Rec(P_struct(None, << >>,
                 <<P_A("u8"),
                   P_struct(Some("B"), << >>, <<P_A("u16"), P_member("a", P_type("A"))>>),
                   P_member("b", P_type("B")),
                   P_member("a", P_type("A"))>>))
\* struct { struct u8 { x: u16 }, v: u8 }
R_shadow_builtin ==
    Rec(P_struct(None, << >>,
                 <<P_struct(Some("u8"), << >>, <<P_member("x", P_type("u16"))>>),
                   P_member("v", P_type("u8"))>>))
\* struct { struct B { struct A { x: u8 }, a: A }, c: A }
R_hidden ==
    Rec(P_struct(None, << >>,
                 <<P_struct(Some("B"), << >>, <<P_A("u8"), P_member("a", P_type("A"))>>),
                   P_member("c", P_type("A"))>>))
\* struct { struct B { struct A { x: u8 } }, struct C { a: A }, c: C }
R_sibling ==
    Rec(P_struct(None, << >>,
                 <<P_struct(Some("B"), << >>, <<P_A("u8")>>),
                   P_struct(Some("C"), << >>, <<P_member("a", P_type("A"))>>),
                   P_member("c", P_type("C"))>>))
\* struct { e: enum { A((A, u8)) }, struct A { x: u8 } }: a name used before its definition
R_later ==
    Rec(P_struct(None, << >>,
                 <<P_member("e", P_enum(None, <<P_item("A", <<P_item_tuple(<<P_tid("A")>>)>>)>>)),
                   P_A("u8")>>))

ScopeScenarios ==
    { [rec |-> R_shadow,
       dat |-> Body(<<D_assign(D_id("b"), D_map(<<D_assign(D_id("a"), X(N(1)))>>)),
                      D_assign(D_id("a"), X(N(2)))>>)],
      [rec |-> R_shadow_builtin, dat |-> Body(<<D_assign(D_id("v"), X(N(1)))>>)],
      [rec |-> R_hidden, dat |-> Body(<< >>)],
      [rec |-> R_sibling, dat |-> Body(<< >>)],
      [rec |-> R_later,
       dat |-> Body(<<D_assign(D_id("e"), D_enum("A", <<D_tuple(<<X(N(3))>>)>>))>>)] }

\* struct { struct A { x: u8 }, a: A }
R_member_struct == Rec(P_struct(None, << >>, <<P_A("u8"), P_member("a", P_type("A"))>>))
\* struct { struct Outer<T> { struct Inner { x: T }, i: Inner }, o: Outer<u8> }
R_inner_generic ==
    Rec(P_struct(None, << >>,
                 <<P_struct(Some("Outer"), <<"T">>,
                            <<P_struct(Some("Inner"), << >>, <<P_member("x", P_type("T"))>>),
                              P_member("i", P_type("Inner"))>>),
                   P_member("o", P_inst("Outer", <<P_type("u8")>>))>>))
\* struct Vector<T> { x: T, y: T }
R_top_generic == Rec(P_Vector)
\* struct { x: u8, y: x }
R_member_capture ==
    Rec(P_struct(None, << >>, <<P_member("x", P_type("u8")), P_member("y", P_type("x"))>>))
\* struct { u8: u16, v: u8 }
R_member_capture_builtin ==
    Rec(P_struct(None, << >>, <<P_member("u8", P_type("u16")), P_member("v", P_type("u8"))>>))

\* data that the emitter rejects, ignores in part, or takes for something else
RejectScenarios ==
    { [rec |-> R_xy,
       dat |-> Body(<<D_assign(D_id("x"), N(1)),
                      D_assign(D_enum("A", <<D_tuple(<<N(3)>>)>>), N(2)),
                      D_assign(D_id("y"), N(2))>>)],
      [rec |-> R_xy,
       dat |-> Body(<<D_assign(D_enum("x", <<D_tuple(<<N(3)>>)>>), N(1)),
                      D_assign(D_enum("B", <<D_map(<< >>)>>), N(2))>>)],
      [rec |-> R_member_struct, dat |-> Body(<<D_assign(D_id("a"), N(4))>>)],
      [rec |-> R_member_struct, dat |-> Body(<<D_assign(D_id("a"), D_list(<<N(4)>>))>>)],
      [rec |-> R_tuple, dat |-> Val(D_list(<<D_id("true"), N(3)>>))],
      [rec |-> R_tuple, dat |-> Val(D_list(<<D_id("true")>>))],
      [rec |-> R_tuple, dat |-> Val(D_map(<<D_assign(D_id("a"), N(1)), D_assign(D_id("b"), N(2))>>))],
      [rec |-> R_tuple, dat |-> Val(D_tuple(<<D_id("true"), N(3), N(4)>>))],
      [rec |-> R_enum, dat |-> Val(D_enum("D", <<D_tuple(<<N(1)>>)>>))],
      [rec |-> R_enum, dat |-> Val(D_enum("D", <<D_map(<<D_assign(D_id("a"), N(1))>>)>>))],
      [rec |-> R_enum, dat |-> Val(D_enum("E", <<D_tuple(<<N(1)>>)>>))],
      [rec |-> R_inner_generic,
       dat |-> Body(<<D_assign(D_id("o"), D_map(<<D_assign(D_id("i"), X(N(1)))>>))>>)],
      [rec |-> R_top_generic, dat |-> Body(XY(N(1), N(2)))],
      [rec |-> R_member_capture, dat |-> Body(XY(N(1), N(2)))],
      [rec |-> R_member_capture_builtin,
       dat |-> Body(<<D_assign(D_id("u8"), N(1)), D_assign(D_id("v"), N(2))>>)],
      [rec |-> R_xy,
       dat |-> Body(<<D_assign(D_id("x"), N(1)), D_assign(D_id("z"), N(3)),
                      D_assign(D_id("y"), N(2))>>)],
      [rec |-> R_xy,
       dat |-> Body(<<D_assign(D_id("x"), N(1)), D_assign(N(4), N(3)),
                      D_assign(D_id("y"), N(2))>>)] }

Scenarios == IntScenarios \cup OtherScenarios \cup ScopeScenarios \cup RejectScenarios

\* what a later compile on the same Compiler is given
ReuseScenarios ==
    { [rec |-> Rec(P_type("i8")), dat |-> Val(D_int(<<"4", "2">>))],
      [rec |-> Rec(P_type("i8")), dat |-> Val(D_int(<<"1", "2", "8">>))] }

-----------------------------------------------------------------------------
(* One Compiler and the compile() calls made on it *)

MaxCompiles == 2

VARIABLES
    tree,           \* Compiler.tree
    out,            \* the bytes the sink Compiler.io has taken
    fails,          \* the number of writes the sink has refused
    errors,         \* Compiler.errors
    generic_stack,  \* Compiler.generic_stack
    pc,             \* where compile() stands: "idle" between calls
    loc,            \* the arguments and locals of the running compile()
    agenda,         \* the pending work of the running write()
    calls,          \* the write() calls of this compile, in call order
    wres,           \* "ok", or "ioerr" once a write() returned Err
    result,         \* what the last compile() returned: "none", "Ok", "Err"
    ncompiles       \* the number of compile() calls made

vars == <<tree, out, fails, errors, generic_stack, pc, loc, agenda, calls, wres,
          result, ncompiles>>

NoLoc == [rec |-> Text("none", FALSE, << >>), dat |-> Text("none", FALSE, << >>),
          node_root |-> 0, node_rec |-> 0, node_dat |-> 0,
          out0 |-> 0, err0 |-> 0, fails0 |-> 0, ran |-> << >>]

\* Compiler::new, on a sink that has taken nothing yet
Init ==
    /\ tree = Tree_new
    /\ out = << >>
    /\ fails = 0
    /\ errors = << >>
    /\ generic_stack = << >>
    /\ pc = "idle"
    /\ loc = NoLoc
    /\ agenda = << >>
    /\ calls = << >>
    /\ wres = "ok"
    /\ result = "none"
    /\ ncompiles = 0

\* the start rule on a text: Err unless the rule matched the whole text
pest_complete(text, form) == text.complete /\ text.form = form

\* compile(): clear, root, natives, parse_recipe_string
CompileBegin(sc) ==
    /\ pc = "idle"
    /\ ncompiles < MaxCompiles
    /\ LET t0        == Tree_clear(tree)
           node_root == t0.next_id
           t1        == populate_natives(create_root_struct(t0), node_root)
           l0        == [NoLoc EXCEPT !.rec = sc.rec, !.dat = sc.dat,
                                      !.node_root = node_root,
                                      !.out0 = Len(out), !.err0 = Len(errors),
                                      !.fails0 = fails]
       IN  IF HasItem(t1, node_root) /\ pest_complete(sc.rec, "type")
           THEN LET r == parse_rec_type(t1, sc.rec.pair)
                IN  /\ HasItem(r.t, r.nid)
                    /\ tree' = child(r.t, node_root, r.nid)
                    /\ loc' = [l0 EXCEPT !.node_rec = r.nid, !.ran = <<"parse_rec">>]
                    /\ errors' = errors
                    /\ pc' = "resolve"
           ELSE /\ tree' = t1
                /\ loc' = [l0 EXCEPT !.ran = <<"parse_rec">>]
                /\ errors' = Append(errors, E_ParseError("IncompleteRecParse"))
                /\ pc' = "finish"
    /\ ncompiles' = ncompiles + 1
    /\ calls' = << >>
    /\ agenda' = << >>
    /\ wres' = "ok"
    /\ result' = "none"
    /\ UNCHANGED <<out, fails, generic_stack>>

Compile ==
    \E sc \in (IF ncompiles = 0 THEN Scenarios ELSE ReuseScenarios) : CompileBegin(sc)

ResolveGateMutAlways(errs) == TRUE

\* compile(): the data is parsed and emitted only if self.errors is empty
ResolveGate(errs) == Len(errs) = 0

\* compile(): resolve_types(node_root)
CompileResolve ==
    /\ pc = "resolve"
    /\ LET st == resolve_types([t |-> tree, errors |-> errors], loc.node_root)
       IN  /\ tree' = st.t
           /\ errors' = st.errors
           /\ pc' = IF ResolveGate(st.errors) THEN "parse_dat" ELSE "finish"
    /\ loc' = [loc EXCEPT !.ran = Append(@, "resolve")]
    /\ UNCHANGED <<out, fails, generic_stack, agenda, calls, wres, result, ncompiles>>

\* compile(): parse_dat_map_string for a RecStruct recipe, else parse_dat_value_string
CompileParseDat ==
    /\ pc = "parse_dat"
    /\ LET as_map == kind(tree, loc.node_rec) = "RecStruct"
       IN  IF pest_complete(loc.dat, IF as_map THEN "map_body" ELSE "value")
           THEN LET r == IF as_map THEN parse_dat_map(tree, loc.dat.pair)
                         ELSE parse_dat_value(tree, loc.dat.pair)
                IN  /\ tree' = r.t
                    /\ loc' = [loc EXCEPT !.node_dat = r.nid, !.ran = Append(@, "parse_dat")]
                    /\ agenda' = <<T_write(loc.node_rec, r.nid, 0)>>
                    /\ errors' = errors
                    /\ pc' = "write"
           ELSE /\ errors' = Append(errors, E_ParseError("IncompleteDatParse"))
                /\ loc' = [loc EXCEPT !.ran = Append(@, "parse_dat")]
                /\ pc' = "finish"
                /\ UNCHANGED <<tree, agenda>>
    /\ UNCHANGED <<out, fails, generic_stack, calls, wres, result, ncompiles>>

Depth(ag) == Cardinality({i \in 1..Len(ag) : ag[i].op = "ret"})
PopsMutNone(ag) == << >>
Pops(ag) == LET IsPop(task) == task.op = "pop" IN SelectSeq(ag, IsPop)
TopFrame(gs) == IF gs = << >> THEN None ELSE Some(gs[Len(gs)])
Call(task, from, to, gs) ==
    [up |-> task.call, rec |-> task.rec, dat |-> task.dat, from |-> from, to |-> to,
     frame |-> TopFrame(gs), gs |-> gs]

WriteStepMutClears(io_ok) ==
    /\ pc = "write"
    /\ agenda # << >>
    /\ io_ok
    /\ tree' = Tree_clear(tree)
    /\ agenda' = << >>
    /\ UNCHANGED <<out, fails, errors, generic_stack, pc, loc, calls, wres, result, ncompiles>>

\* one step of the running write(): the next pending piece of work
WriteStep(io_ok) ==
    /\ pc = "write"
    /\ agenda # << >>
    /\ LET task == Head(agenda)
           rest == Tail(agenda)
           w    == [out |-> out, fails |-> fails, errors |-> errors, gs |-> generic_stack]
       IN  CASE task.op = "write" /\ Depth(agenda) >= MaxDepth ->
                    /\ io_ok
                    /\ pc' = "overflow"
                    /\ UNCHANGED <<out, fails, errors, generic_stack, agenda, calls, wres>>
             [] task.op = "write" /\ Depth(agenda) < MaxDepth ->
                    LET r == write(tree, w, task.rec, task.dat, Len(calls) + 1, io_ok)
                    IN  /\ io_ok \/ (fails < MaxIoFailures /\ r.w.fails > fails)
                        /\ out' = r.w.out
                        /\ fails' = r.w.fails
                        /\ errors' = r.w.errors
                        /\ generic_stack' = r.w.gs
                        /\ calls' = Append(calls,
                                Call(task, Len(out),
                                     IF r.res = "ok" THEN Len(r.w.out) ELSE -1,
                                     generic_stack))
                        /\ agenda' = CASE r.res = "open" -> r.push \o rest
                                       [] r.res = "ioerr" -> Pops(rest)
                                       [] OTHER -> rest
                        /\ wres' = IF r.res = "ioerr" THEN "ioerr" ELSE wres
                        /\ pc' = IF r.res = "panic" THEN "panic" ELSE pc
             [] task.op = "pop" ->
                    /\ io_ok
                    /\ generic_stack' = SubSeq(generic_stack, 1, Len(generic_stack) - 1)
                    /\ agenda' = rest
                    /\ UNCHANGED <<out, fails, errors, calls, wres, pc>>
             [] task.op = "ret" ->
                    /\ io_ok
                    /\ calls' = [calls EXCEPT ![task.call].to = Len(out)]
                    /\ agenda' = rest
                    /\ UNCHANGED <<out, fails, errors, generic_stack, wres, pc>>
             [] task.op = "error" ->
                    /\ io_ok
                    /\ errors' = Append(errors, task.err[1])
                    /\ agenda' = rest
                    /\ UNCHANGED <<out, fails, generic_stack, calls, wres, pc>>
             [] task.op = "panic" ->
                    /\ io_ok
                    /\ pc' = "panic"
                    /\ UNCHANGED <<out, fails, errors, generic_stack, agenda, calls, wres>>
    /\ UNCHANGED <<tree, loc, result, ncompiles>>

Write == \E io_ok \in BOOLEAN : WriteStep(io_ok)

\* compile(): write() has returned; its Err is recorded as IOError
CompileWriteReturn ==
    /\ pc = "write"
    /\ agenda = << >>
    /\ errors' = IF wres = "ioerr" THEN Append(errors, E_IOError) ELSE errors
    /\ loc' = [loc EXCEPT !.ran = Append(@, "write")]
    /\ pc' = "finish"
    /\ UNCHANGED <<tree, out, fails, generic_stack, agenda, calls, wres, result, ncompiles>>

\* compile(): Err(()) if self.errors is not empty
ReturnValue(errs) == IF Len(errs) > 0 THEN "Err" ELSE "Ok"

\* compile() returns
CompileReturn ==
    /\ pc = "finish"
    /\ result' = ReturnValue(errors)
    /\ pc' = "idle"
    /\ UNCHANGED <<tree, out, fails, errors, generic_stack, loc, agenda, calls, wres,
                   ncompiles>>

-----------------------------------------------------------------------------
(* load_from_string and load_from_file: a Compiler of its own, the recipe   *)
(* the type T builds for itself, the data parsed, resolve_types on the      *)
(* recipe node, then write(...).unwrap() whatever resolve_types recorded.   *)

MaxLoads == 2

\* #[derive(Recipe)] enum E { A, B, C }
H_E == H_Enum(<<"A", "B", "C">>, <<H_Variant(<< >>), H_Variant(<< >>), H_Variant(<< >>)>>)
\* #[derive(Recipe)] enum E { A(u8), B(bool), C }
H_E_tuple ==
    H_Enum(<<"A", "B", "C">>,
           <<H_Variant(<<H_u8>>), H_Variant(<<H_bool>>), H_Variant(<< >>)>>)

\* the types T and the data the host loads
LoadScenarios ==
    { [ty |-> H_E, dat |-> Val(D_id("A"))],
      [ty |-> H_E, dat |-> Val(D_id("B"))],
      [ty |-> H_E, dat |-> Val(D_id("C"))],
      [ty |-> H_E_tuple, dat |-> Val(D_enum("B", <<D_tuple(<<D_id("true")>>)>>))],
      [ty |-> H_E_tuple, dat |-> Val(D_id("C"))],
      [ty |-> H_Vec(H_E), dat |-> Val(D_list(<<D_id("A"), D_id("B"), D_id("C")>>))],
      [ty |-> H_Vec(H_i32), dat |-> Val(D_list(<<N(1), N(2), N(3)>>))],
      [ty |-> H_Tuple(<<H_E, H_bool>>), dat |-> Val(D_tuple(<<D_id("B"), D_id("true")>>))],
      [ty |-> H_Tuple(<<H_i32, H_Tuple(<<H_u8, H_bool>>)>>),
       dat |-> Val(D_tuple(<<N(3), D_tuple(<<N(4), D_id("false")>>)>>))],
      [ty |-> H_Struct(<<"e", "n">>, <<H_E, H_u8>>),
       dat |-> Body(<<D_assign(D_id("e"), D_id("C")), D_assign(D_id("n"), N(4))>>)],
      [ty |-> H_Struct(<<"x", "y">>, <<H_i32, H_i32>>), dat |-> Body(XY(N(1), N(2)))],
      [ty |-> H_Struct(<<"x", "y">>, <<H_i32, H_i32>>), dat |-> Val(N(1))],
      [ty |-> H_Struct(<<"v">>, <<H_Vec(H_E_tuple)>>),
       dat |-> Body(<<D_assign(D_id("v"),
                        D_list(<<D_id("C"), D_enum("A", <<D_tuple(<<N(2)>>)>>)>>))>>)] }

\* Compiler::new, T::recipe, then the data parsed with unwrap()
LoadBegin(sc) ==
    /\ pc = "idle"
    /\ ncompiles < MaxLoads
    /\ LET r      == recipe(Tree_new, sc.ty)
           as_map == kind(r.t, r.nid) = "RecStruct"
           l0     == [NoLoc EXCEPT !.rec = sc.ty, !.dat = sc.dat,
                                   !.node_root = r.nid, !.node_rec = r.nid,
                                   !.fails0 = fails, !.ran = <<"recipe">>]
       IN  IF pest_complete(sc.dat, IF as_map THEN "map_body" ELSE "value")
           THEN LET d == IF as_map THEN parse_dat_map(r.t, sc.dat.pair)
                         ELSE parse_dat_value(r.t, sc.dat.pair)
                IN  /\ tree' = d.t
                    /\ loc' = [l0 EXCEPT !.node_dat = d.nid, !.ran = Append(@, "parse_dat")]
                    /\ pc' = "load_resolve"
           ELSE /\ tree' = r.t
                /\ loc' = l0
                /\ pc' = "panic"
    /\ out' = << >>
    /\ errors' = << >>
    /\ generic_stack' = << >>
    /\ ncompiles' = ncompiles + 1
    /\ calls' = << >>
    /\ agenda' = << >>
    /\ wres' = "ok"
    /\ result' = "none"
    /\ UNCHANGED fails

Load == \E sc \in LoadScenarios : LoadBegin(sc)

\* resolve_types(nid_rec); the emission follows whatever it recorded
LoadResolve ==
    /\ pc = "load_resolve"
    /\ LET st == resolve_types([t |-> tree, errors |-> errors], loc.node_rec)
       IN  /\ tree' = st.t
           /\ errors' = st.errors
    /\ loc' = [loc EXCEPT !.ran = Append(@, "resolve")]
    /\ agenda' = <<T_write(loc.node_rec, loc.node_dat, 0)>>
    /\ pc' = "write"
    /\ UNCHANGED <<out, fails, generic_stack, calls, wres, result, ncompiles>>

\* write(...).unwrap(): an Err of the sink panics, else the bytes are handed on
LoadReturn ==
    /\ pc = "write"
    /\ agenda = << >>
    /\ loc' = [loc EXCEPT !.ran = Append(@, "write")]
    /\ pc' = IF wres = "ioerr" THEN "panic" ELSE "idle"
    /\ result' = IF wres = "ioerr" THEN result ELSE "Loaded"
    /\ UNCHANGED <<tree, out, fails, errors, generic_stack, agenda, calls, wres, ncompiles>>

NextLoad == Load \/ LoadResolve \/ Write \/ LoadReturn

SpecLoad == Init /\ [][NextLoad]_vars

-----------------------------------------------------------------------------
(* tree.rs on its own: a host that calls the public operations of one Tree  *)
(* in any order.  loc holds the call being made, calls the ids the creating *)
(* calls have returned, pc turns "panic" when the call panics, and the tree *)
(* is then left as the call had changed it up to the panic.                 *)

MaxNodes == 3

TreeCall(op, parent_id, child_id) == [op |-> op, parent |-> parent_id, child |-> child_id]
TreeIds == 0..(MaxNodes - 1)
TreeValue == new_anonymous(RecStruct)

\* tree.create_with_parent(par, value); tree.create(value) when par is None
TreeCreateWithParent(par) ==
    /\ pc = "idle"
    /\ tree.next_id < MaxNodes
    /\ tree' = create_with_parent(tree, par, TreeValue)
    /\ loc' = TreeCall(IF IsSome(par) THEN "create_with_parent" ELSE "create", par, tree.next_id)
    /\ IF create_with_parent_panics(tree, par)
       THEN pc' = "panic" /\ calls' = calls
       ELSE pc' = "idle" /\ calls' = Append(calls, tree.next_id)
    /\ UNCHANGED <<out, fails, errors, generic_stack, agenda, wres, result, ncompiles>>

TreeCreate == TreeCreateWithParent(None)

TreeCreateChild == \E p \in TreeIds : TreeCreateWithParent(Some(p))

\* tree.child(parent_id, child_id)
TreeChild ==
    \E parent_id \in TreeIds, child_id \in TreeIds :
        /\ pc = "idle"
        /\ loc' = TreeCall("child", Some(parent_id), child_id)
        /\ IF ~HasItem(tree, child_id) \/ IsSome(parent(tree, child_id))
           THEN tree' = tree
           ELSE tree' = child(tree, parent_id, child_id)
        /\ pc' = IF child_panics(tree, parent_id, child_id) THEN "panic" ELSE "idle"
        /\ UNCHANGED <<out, fails, errors, generic_stack, agenda, calls, wres, result,
                       ncompiles>>

\* tree.clear()
TreeClear ==
    /\ pc = "idle"
    /\ tree' = Tree_clear(tree)
    /\ loc' = TreeCall("clear", None, 0)
    /\ UNCHANGED <<out, fails, errors, generic_stack, pc, agenda, calls, wres, result,
                   ncompiles>>

NextTree == TreeCreate \/ TreeCreateChild \/ TreeChild \/ TreeClear

SpecTree == Init /\ [][NextTree]_vars

Next == Compile \/ CompileResolve \/ CompileParseDat \/ Write \/ CompileWriteReturn
        \/ CompileReturn

Spec == Init /\ [][Next]_vars

-----------------------------------------------------------------------------
(* Reading the run: the calls of the running emission and the bytes each    *)
(* of them put on the sink.                                                 *)

Closed(c) == c.to >= 0
Bytes(c) == SubSeq(out, c.from + 1, c.to)
CallIds == 1..Len(calls)
SubCalls(i) == {j \in CallIds : calls[j].up = i}
IsIntCall(c) == kind(tree, c.rec) = "RecInt" /\ kind(tree, c.dat) = "DatInt"
IntType(c) == get(tree, c.rec).content
Literal(c) == get(tree, c.dat).content.repr
Diagnoses(e, nid) == "node" \in DOMAIN e /\ e.node = nid
DiagnosticsOn(nid) == {k \in 1..Len(errors) : Diagnoses(errors[k], nid)}

(* Decimal arithmetic on digit sequences, least significant digit first and *)
(* without leading zeros, to read literals and emitted bytes as integers.   *)

DecDigit(ch) ==
    CHOOSE d \in 0..9 : <<"0", "1", "2", "3", "4", "5", "6", "7", "8", "9">>[d + 1] = ch

RECURSIVE DecStrip(_)
DecStrip(d) ==
    IF d = << >> THEN d
    ELSE IF d[Len(d)] = 0 THEN DecStrip(SubSeq(d, 1, Len(d) - 1)) ELSE d

DecOfText(txt) == DecStrip([i \in 1..Len(txt) |-> DecDigit(txt[Len(txt) + 1 - i])])

RECURSIVE DecMulAdd(_, _, _)
DecMulAdd(d, m, c) ==
    IF d = << >>
    THEN IF c = 0 THEN << >> ELSE <<c % 10>> \o DecMulAdd(d, m, c \div 10)
    ELSE <<(d[1] * m + c) % 10>> \o DecMulAdd(Tail(d), m, (d[1] * m + c) \div 10)

RECURSIVE DecOfBytes(_)
DecOfBytes(bytes) ==
    IF bytes = << >> THEN << >>
    ELSE DecMulAdd(DecOfBytes(Tail(bytes)), 256, bytes[1])

RECURSIVE DecAdd(_, _, _)
DecAdd(a, b, carry) ==
    IF a = << >> /\ b = << >>
    THEN IF carry = 0 THEN << >> ELSE <<carry>>
    ELSE LET x == IF a = << >> THEN 0 ELSE a[1]
             y == IF b = << >> THEN 0 ELSE b[1]
         IN  <<(x + y + carry) % 10>>
             \o DecAdd(IF a = << >> THEN a ELSE Tail(a),
                       IF b = << >> THEN b ELSE Tail(b), (x + y + carry) \div 10)

DecLt(a, b) ==
    \/ Len(a) < Len(b)
    \/ /\ Len(a) = Len(b)
       /\ \E k \in 1..Len(a) : a[k] < b[k] /\ \A j \in (k + 1)..Len(a) : a[j] = b[j]

DecLe(a, b) == a = b \/ DecLt(a, b)

\* 2^n as decimal digits, for n = 8k or n = 8k - 1
Pow2Dec(n) ==
    DecOfBytes([i \in 1..(n \div 8) + 1 |->
                  IF i <= n \div 8 THEN 0 ELSE IF n % 8 = 0 THEN 1 ELSE 128])

IsNegative(txt) == txt[1] = "-"
Magnitude(txt) == DecOfText(IF IsNegative(txt) THEN Tail(txt) ELSE txt)

\* the literal lies in [-2^(bs-1), 2^(bs-1) - 1] (signed) or [0, 2^bs - 1] (unsigned)
InRange(bit_size, signed, txt) ==
    IF Magnitude(txt) = << >> THEN TRUE
    ELSE IF IsNegative(txt) THEN signed /\ DecLe(Magnitude(txt), Pow2Dec(bit_size - 1))
    ELSE DecLt(Magnitude(txt), Pow2Dec(IF signed THEN bit_size - 1 ELSE bit_size))

LiteralInRange(c) == InRange(IntType(c).bit_size, IntType(c).signed, Literal(c))

\* the bytes are the little-endian encoding, in bit_size bits, of the literal
EncodesLiteral(bytes, bit_size, txt) ==
    /\ Len(bytes) = bit_size \div 8
    /\ IF IsNegative(txt) /\ Magnitude(txt) # << >>
       THEN /\ DecAdd(DecOfBytes(bytes), Magnitude(txt), 0) = Pow2Dec(bit_size)
            /\ bytes[Len(bytes)] >= 128
       ELSE DecOfBytes(bytes) = Magnitude(txt)

(* C2: an integer literal inside the range of its RecInt is written as     *)
(* exactly bit_size/8 bytes whose little-endian value is the literal modulo *)
(* 2^bit_size: two's complement with the high bit of the last byte set for  *)
(* a negative literal, zero-extended otherwise (the sink taking the bytes). *)
C2_IntBytes ==
    \A i \in CallIds :
        (fails = 0 /\ IsIntCall(calls[i]) /\ LiteralInRange(calls[i]))
            => EncodesLiteral(Bytes(calls[i]), IntType(calls[i]).bit_size,
                              Literal(calls[i]))

\* -1 written as a 32-bit integer: sign extension has happened
C2_Witness ==
    \E i \in CallIds :
        /\ fails = 0 /\ IsIntCall(calls[i]) /\ LiteralInRange(calls[i])
        /\ IntType(calls[i]).bit_size = 32
        /\ Literal(calls[i]) = <<"-", "1">>
        /\ Bytes(calls[i]) = <<255, 255, 255, 255>>

(* C3: emitting a DatInt against a RecInt records no diagnostic for the     *)
(* data node exactly when the literal lies in [min, max] of the type, and   *)
(* records ValueOutOfBounds for that node when it lies outside (the sink    *)
(* not failing).                                                            *)
C3_RangeCheck ==
    \A i \in CallIds :
        (fails = 0 /\ IsIntCall(calls[i])) =>
            /\ LiteralInRange(calls[i]) <=> DiagnosticsOn(calls[i].dat) = {}
            /\ ~LiteralInRange(calls[i]) =>
                  \E k \in DiagnosticsOn(calls[i].dat) :
                      errors[k] = E_node("ValueOutOfBounds", calls[i].dat)

\* max + 1 of i64 was refused
C3_Witness ==
    \E i \in CallIds :
        /\ fails = 0 /\ IsIntCall(calls[i]) /\ ~LiteralInRange(calls[i])
        /\ IntType(calls[i]) = RecInt(64, TRUE)
        /\ ~IsNegative(Literal(calls[i]))
        /\ Magnitude(Literal(calls[i])) = Pow2Dec(63)
        /\ DiagnosticsOn(calls[i].dat) # {}

\* the k-th call made directly by call i, in call order
NthSub(i, k) ==
    CHOOSE j \in SubCalls(i) : Cardinality({x \in SubCalls(i) : x < j}) = k - 1

\* calls[i] made exactly n calls, one after the other, which wrote the bytes of
\* calls[i] from offset skip on, with nothing before, between or after them
Concatenates(i, n, skip) ==
    /\ Cardinality(SubCalls(i)) = n
    /\ \A k \in 1..n :
          /\ Closed(calls[NthSub(i, k)])
          /\ calls[NthSub(i, k)].from =
                IF k = 1 THEN calls[i].from + skip ELSE calls[NthSub(i, k - 1)].to
    /\ calls[i].to = IF n = 0 THEN calls[i].from + skip ELSE calls[NthSub(i, n)].to

\* calls[j] handed its data to exactly one call, on the pair (rec, dat)
Delegates(j, rec, dat) ==
    /\ Cardinality(SubCalls(j)) = 1
    /\ calls[NthSub(j, 1)].rec = rec
    /\ calls[NthSub(j, 1)].dat = dat
    /\ calls[NthSub(j, 1)].from = calls[j].from
    /\ calls[NthSub(j, 1)].to = calls[j].to

IsStructCall(c) == kind(tree, c.rec) = "RecStruct" /\ kind(tree, c.dat) = "DatMap"

\* the members a struct declares, in declaration order
DeclaredMembers(rec) ==
    LET IsDeclaredMember(n) == kind(tree, n) = "RecStructMember"
    IN  SelectSeq(children(tree, rec), IsDeclaredMember)

Entries(dat) == children(tree, dat)
EntryKey(a) == children(tree, a)[1]
EntryValue(a) == children(tree, a)[2]
EntriesFor(dat, m) ==
    {k \in 1..Len(Entries(dat)) : name(tree, EntryKey(Entries(dat)[k])) = name(tree, m)}
EntryFor(dat, m) == Entries(dat)[CHOOSE k \in EntriesFor(dat, m) : TRUE]

OneEntryPerMember(c) ==
    /\ Len(Entries(c.dat)) = Len(DeclaredMembers(c.rec))
    /\ \A k \in 1..Len(DeclaredMembers(c.rec)) :
          Cardinality(EntriesFor(c.dat, DeclaredMembers(c.rec)[k])) = 1

(* C4: a struct emitted against a map with exactly one entry per member is  *)
(* the concatenation of its members' encodings in declaration order, each   *)
(* member encoding the value of the entry that carries its name, whatever   *)
(* the order of the entries; nothing else among the struct's children is    *)
(* emitted, and no tag, length or padding is written.                       *)
C4_StructConcatenation ==
    \A i \in CallIds :
        (fails = 0 /\ Closed(calls[i]) /\ IsStructCall(calls[i])
            /\ OneEntryPerMember(calls[i])) =>
            LET ms == DeclaredMembers(calls[i].rec)
            IN  /\ Concatenates(i, Len(ms), 0)
                /\ \A k \in 1..Len(ms) :
                      /\ calls[NthSub(i, k)].rec = ms[k]
                      /\ Delegates(NthSub(i, k), unique_child(tree, ms[k]),
                                   EntryValue(EntryFor(calls[i].dat, ms[k])))

\* a struct with a nested declaration, emitted from entries in the other order
C4_Witness ==
    \E i \in CallIds :
        /\ fails = 0 /\ Closed(calls[i]) /\ IsStructCall(calls[i])
        /\ OneEntryPerMember(calls[i])
        /\ Len(DeclaredMembers(calls[i].rec)) = 2
        /\ Len(children(tree, calls[i].rec)) > 2
        /\ EntriesFor(calls[i].dat, DeclaredMembers(calls[i].rec)[1]) = {2}
        /\ Bytes(calls[i]) = <<3, 0, 0, 0, 4, 0, 0, 0, 1, 0>>

IsListCall(c) == kind(tree, c.rec) = "RecList"
IsMapCall(c) == kind(tree, c.rec) = "RecMap"
DecOfNat(n) == DecMulAdd(<< >>, 0, n)

\* the first 8 bytes of the call are n as a little-endian unsigned count
CountPrefix(c, n) ==
    /\ Len(Bytes(c)) >= 8
    /\ DecOfBytes(SubSeq(Bytes(c), 1, 8)) = DecOfNat(n)

(* C5: a list or a map emitted against a data node with n children is n as  *)
(* an 8-byte little-endian count followed by the children's encodings in    *)
(* data order: list elements against the list's element type, and of each   *)
(* map entry the key against the first type argument, then the value        *)
(* against the second.                                                      *)
C5_CountedSequences ==
    \A i \in CallIds :
        (fails = 0 /\ Closed(calls[i])) =>
            LET c  == calls[i]
                xs == children(tree, c.dat)
            IN  /\ IsListCall(c) =>
                      /\ CountPrefix(c, Len(xs))
                      /\ Concatenates(i, Len(xs), 8)
                      /\ \A k \in 1..Len(xs) :
                            /\ calls[NthSub(i, k)].rec = unique_child(tree, c.rec)
                            /\ calls[NthSub(i, k)].dat = xs[k]
                /\ IsMapCall(c) =>
                      /\ CountPrefix(c, Len(xs))
                      /\ Concatenates(i, 2 * Len(xs), 8)
                      /\ \A k \in 1..Len(xs) :
                            /\ calls[NthSub(i, 2 * k - 1)].rec = children(tree, c.rec)[1]
                            /\ calls[NthSub(i, 2 * k - 1)].dat = EntryKey(xs[k])
                            /\ calls[NthSub(i, 2 * k)].rec = children(tree, c.rec)[2]
                            /\ calls[NthSub(i, 2 * k)].dat = EntryValue(xs[k])

\* a list of two and a map of two entries have been emitted
C5_Witness ==
    /\ fails = 0
    /\ \E i \in CallIds :
          /\ Closed(calls[i]) /\ IsListCall(calls[i])
          /\ Bytes(calls[i]) = <<2, 0, 0, 0, 0, 0, 0, 0, 1, 2>>
    /\ \E i \in CallIds :
          /\ Closed(calls[i]) /\ IsMapCall(calls[i])
          /\ Bytes(calls[i]) =
                <<2, 0, 0, 0, 0, 0, 0, 0, 4, 1, 0, 0, 0, 2, 3, 0, 0, 0>>

IsEnumCall(c) == kind(tree, c.rec) = "RecEnum" /\ kind(tree, c.dat) = "DatEnum"

\* the positions of the enum's items that carry the data's name
NamedItems(c) ==
    {k \in 1..Len(children(tree, c.rec)) :
        name(tree, children(tree, c.rec)[k]) = name(tree, c.dat)}
FirstNamedItem(c) == CHOOSE k \in NamedItems(c) : \A j \in NamedItems(c) : k <= j

\* the width in bytes of the enum's tag: 1 for the built-in bool, 4 for a parsed enum
TagWidth(c) == IF name(tree, c.rec) = Some("bool") THEN 1 ELSE 4

(* C6: an enum emitted against a DatEnum naming one of its items is the     *)
(* item's tag, which is its position counted from 0, in the width of the    *)
(* key type (4 bytes little-endian for a parsed enum, 1 byte for bool),      *)
(* followed by the encoding of the data's payload against the item's        *)
(* payload type when the item has one.                                      *)
C6_EnumTagPayload ==
    \A i \in CallIds :
        (fails = 0 /\ Closed(calls[i]) /\ IsEnumCall(calls[i])
            /\ NamedItems(calls[i]) # {}) =>
            LET c     == calls[i]
                item  == children(tree, c.rec)[FirstNamedItem(c)]
                w     == TagWidth(c)
                typed == children(tree, item) # << >> /\ children(tree, c.dat) # << >>
            IN  /\ get(tree, unwrap_id(get(tree, c.rec).content.key_type)).content.bit_size
                      = 8 * w
                /\ Len(Bytes(c)) >= w
                /\ DecOfBytes(SubSeq(Bytes(c), 1, w)) = DecOfNat(FirstNamedItem(c) - 1)
                /\ Concatenates(i, IF typed THEN 1 ELSE 0, w)
                /\ typed =>
                      /\ calls[NthSub(i, 1)].rec = children(tree, item)[1]
                      /\ calls[NthSub(i, 1)].dat = children(tree, c.dat)[1]

\* the third item of a parsed enum, with its payload, and inside it a bool
C6_Witness ==
    /\ fails = 0
    /\ \E i \in CallIds :
          /\ Closed(calls[i]) /\ IsEnumCall(calls[i])
          /\ NamedItems(calls[i]) = {3}
          /\ Bytes(calls[i]) = <<2, 0, 0, 0, 254, 255, 255, 255, 0>>
    /\ \E i \in CallIds :
          /\ Closed(calls[i]) /\ IsEnumCall(calls[i])
          /\ TagWidth(calls[i]) = 1
          /\ Bytes(calls[i]) = <<0>>

IsGenericCall(c) == kind(tree, c.rec) = "RecGeneric"

\* a call that instantiates the generic type g
Instantiates(c, g) ==
    /\ kind(tree, c.rec) = "RecTypeInst"
    /\ get(tree, c.rec).content.tid = Id(g)

RECURSIVE EnclosingInstantiation(_, _)
\* the nearest call around call i that instantiates g; 0 if there is none
EnclosingInstantiation(i, g) ==
    IF i = 0 THEN 0
    ELSE IF Instantiates(calls[i], g) THEN i
    ELSE EnclosingInstantiation(calls[i].up, g)

(* C7: when an instantiation of a generic type G with arguments A0..An-1 is *)
(* emitted, a member of G whose type is G's parameter of index i is emitted *)
(* against Ai, the argument of the instantiation of G being emitted, also   *)
(* when an argument is an instantiation itself or a parameter of the        *)
(* enclosing generic type.                                                  *)
C7_GenericSubstitution ==
    \A j \in CallIds :
        (IsGenericCall(calls[j]) /\ SubCalls(j) # {}) =>
            LET g    == Unwrap(parent(tree, calls[j].rec))
                inst == EnclosingInstantiation(j, g)
            IN  /\ inst # 0
                /\ calls[NthSub(j, 1)].rec =
                      children(tree, calls[inst].rec)[get(tree, calls[j].rec).content.index + 1]

(* C8: emission terminates; in particular no chain of RecTypeInst and       *)
(* RecGeneric indirections comes back, inside a call that has not returned, *)
(* to the same schema node, data node and top frame, from where it would    *)
(* repeat forever.                                                          *)
C8_NoRevisit ==
    \A i, j \in CallIds :
        (i < j /\ ~Closed(calls[i]) /\ ~Closed(calls[j])) =>
            <<calls[i].rec, calls[i].dat, calls[i].frame>>
                # <<calls[j].rec, calls[j].dat, calls[j].frame>>

\* the diagnostics the compile() call at hand has recorded so far
ThisCompile == SubSeq(errors, loc.err0 + 1, Len(errors))
Recorded(kinds) == \E k \in 1..Len(ThisCompile) : ThisCompile[k].kind \in kinds
Returned == pc = "idle" /\ ncompiles > 0

(* C9: compiles on one Compiler are independent: a compile call returns Err *)
(* if and only if that call itself recorded at least one diagnostic.        *)
C9_IndependentCompiles ==
    Returned => (result = "Err" <=> Len(ThisCompile) > 0)

Phases == <<"parse_rec", "resolve", "parse_dat", "write">>
Ran(phase) == \E k \in 1..Len(loc.ran) : loc.ran[k] = phase
EmissionRan == Ran("write") \/ pc = "write" \/ calls # << >>
ResolutionKinds ==
    {"UnresolvedType", "GenericArgCountMismatch", "EnumTypeIsNotInt", "EnumValueOutOfBounds"}
\* nothing reached the sink, and the call, once it has returned, returned Err
Aborted == Len(out) = loc.out0 /\ (Returned => result = "Err")

(* C10: compile runs its phases in order, each gated on the one before: a   *)
(* recipe parse failure leaves resolution out, a resolution diagnostic      *)
(* leaves data parsing and emission out, a data parse failure leaves        *)
(* emission out; in each case the sink takes no byte and compile returns    *)
(* Err.                                                                     *)
C10_PhaseGating ==
    /\ loc.ran = SubSeq(Phases, 1, Len(loc.ran))
    /\ Recorded({"IncompleteRecParse"}) =>
          ~Ran("resolve") /\ ~Ran("parse_dat") /\ ~EmissionRan /\ Aborted
    /\ Recorded(ResolutionKinds) => ~Ran("parse_dat") /\ ~EmissionRan /\ Aborted
    /\ Recorded({"IncompleteDatParse"}) => ~EmissionRan /\ Aborted

\* a compile whose recipe names an unknown type has returned after resolution
C10_Witness ==
    /\ Returned
    /\ loc.rec = R_unresolved
    /\ Recorded({"UnresolvedType"})
    /\ loc.ran = <<"parse_rec", "resolve">>
    /\ calls = << >>
    /\ Len(out) = loc.out0
    /\ result = "Err"

(* The schema read with its generic arguments substituted textually: an     *)
(* environment is the instantiations around the place being read, each with *)
(* the generic type it instantiates (owner), its arguments (args) and the   *)
(* environment its arguments were written in (at).                          *)

Bind(env, inst) ==
    LET target == unwrap_id(get(tree, inst).content.tid)
    IN  IF kind(tree, target) \in {"RecStruct", "RecList", "RecMap"}
        THEN Append(env, [owner |-> target, args |-> children(tree, inst), at |-> env])
        ELSE env

\* the innermost instantiation around the place that binds the parameter g
Binding(env, g) ==
    LET hits == {k \in 1..Len(env) : Some(env[k].owner) = parent(tree, g)}
    IN  IF hits = {} THEN None
        ELSE Some(env[CHOOSE k \in hits : \A j \in hits : j <= k])

MapTypes(rec, n) == [k \in 1..2 * n |-> children(tree, rec)[2 - (k % 2)]]
MapData(xs) ==
    [k \in 1..2 * Len(xs) |->
        IF k % 2 = 1 THEN EntryKey(xs[(k + 1) \div 2]) ELSE EntryValue(xs[k \div 2])]
TupleTypes(rec) ==
    [k \in 1..Len(children(tree, rec)) |->
        unwrap_id(get(tree, children(tree, rec)[k]).content.tid)]
MemberTypes(rec) ==
    [k \in 1..Len(DeclaredMembers(rec)) |-> unique_child(tree, DeclaredMembers(rec)[k])]
MemberData(rec, dat) ==
    [k \in 1..Len(DeclaredMembers(rec)) |->
        EntryValue(EntryFor(dat, DeclaredMembers(rec)[k]))]

RECURSIVE Matches(_, _, _)
\* the data value dat is a value of the schema rec read in env
Matches(rec, env, dat) ==
    LET c  == get(tree, rec).content
        d  == get(tree, dat).content
        xs == children(tree, dat)
        rd == [rec |-> rec, dat |-> dat]
        MatchAll(recs, ys) ==
            /\ Len(recs) = Len(ys)
            /\ \A k \in 1..Len(recs) : Matches(recs[k], env, ys[k])
    IN  CASE c.kind = "RecInt" -> d.kind = "DatInt" /\ InRange(c.bit_size, c.signed, d.repr)
          [] c.kind = "RecFloat" -> d.kind \in {"DatInt", "DatFloat"}
          [] c.kind = "RecTypeInst" ->
                Matches(unwrap_id(c.tid), Bind(env, rec), dat)
          [] c.kind = "RecGeneric" ->
                /\ IsSome(Binding(env, rec))
                /\ Matches(Unwrap(Binding(env, rec)).args[c.index + 1],
                           Unwrap(Binding(env, rec)).at, dat)
          [] c.kind = "RecStruct" ->
                /\ d.kind = "DatMap"
                /\ OneEntryPerMember(rd)
                /\ MatchAll(MemberTypes(rec), MemberData(rec, dat))
          [] c.kind = "RecList" ->
                /\ d.kind = "DatList"
                /\ MatchAll([k \in 1..Len(xs) |-> unique_child(tree, rec)], xs)
          [] c.kind = "RecMap" ->
                /\ d.kind = "DatMap"
                /\ MatchAll(MapTypes(rec, Len(xs)), MapData(xs))
          [] c.kind = "RecTuple" ->
                /\ d.kind = "DatTuple"
                /\ MatchAll(TupleTypes(rec), xs)
          [] c.kind = "RecEnum" ->
                /\ d.kind = "DatEnum"
                /\ NamedItems(rd) # {}
                /\ MatchAll(children(tree, children(tree, rec)[FirstNamedItem(rd)]), xs)
          [] OTHER -> FALSE

RECURSIVE DecodeEnd(_, _, _, _)
RECURSIVE DecodeSeq(_, _, _, _, _)
\* reading a value of the schema rec in env from offset pos of the sink gives
\* the data value dat: the offset the reading ends at, or -1 if it does not.
\* Of a float only the width is read.
DecodeEnd(rec, env, dat, pos) ==
    LET c    == get(tree, rec).content
        d    == get(tree, dat).content
        xs   == children(tree, dat)
        rd   == [rec |-> rec, dat |-> dat]
        Avail(n) == pos + n <= Len(out)
        Read(n)  == SubSeq(out, pos + 1, pos + n)
    IN  CASE c.kind = "RecInt" ->
                IF Avail(c.bit_size \div 8)
                   /\ EncodesLiteral(Read(c.bit_size \div 8), c.bit_size, d.repr)
                THEN pos + (c.bit_size \div 8) ELSE -1
          [] c.kind = "RecFloat" ->
                IF Avail(c.size \div 8) THEN pos + (c.size \div 8) ELSE -1
          [] c.kind = "RecTypeInst" ->
                DecodeEnd(unwrap_id(c.tid), Bind(env, rec), dat, pos)
          [] c.kind = "RecGeneric" ->
                DecodeEnd(Unwrap(Binding(env, rec)).args[c.index + 1],
                          Unwrap(Binding(env, rec)).at, dat, pos)
          [] c.kind = "RecStruct" ->
                DecodeSeq(MemberTypes(rec), env, MemberData(rec, dat), 1, pos)
          [] c.kind = "RecList" ->
                IF Avail(8) /\ DecOfBytes(Read(8)) = DecOfNat(Len(xs))
                THEN DecodeSeq([k \in 1..Len(xs) |-> unique_child(tree, rec)], env, xs,
                               1, pos + 8)
                ELSE -1
          [] c.kind = "RecMap" ->
                IF Avail(8) /\ DecOfBytes(Read(8)) = DecOfNat(Len(xs))
                THEN DecodeSeq(MapTypes(rec, Len(xs)), env, MapData(xs), 1, pos + 8)
                ELSE -1
          [] c.kind = "RecTuple" -> DecodeSeq(TupleTypes(rec), env, xs, 1, pos)
          [] c.kind = "RecEnum" ->
                LET w == get(tree, unwrap_id(c.key_type)).content.bit_size \div 8
                IN  IF Avail(w) /\ DecOfBytes(Read(w)) = DecOfNat(FirstNamedItem(rd) - 1)
                    THEN DecodeSeq(children(tree, children(tree, rec)[FirstNamedItem(rd)]),
                                   env, xs, 1, pos + w)
                    ELSE -1
          [] OTHER -> -1

DecodeSeq(recs, env, dats, k, pos) ==
    IF pos < 0 \/ k > Len(recs) THEN pos
    ELSE DecodeSeq(recs, env, dats, k + 1, DecodeEnd(recs[k], env, dats[k], pos))

(* C1: round trip: when the data matches the resolved schema, reading the   *)
(* bytes compile has emitted with the little-endian decoder of the schema,  *)
(* generic arguments substituted, gives the data back and uses up exactly   *)
(* the emitted bytes (the sink taking every byte).                          *)
C1_RoundTrip ==
    (Returned /\ Ran("write") /\ fails = 0
        /\ Matches(loc.node_rec, << >>, loc.node_dat)) =>
        DecodeEnd(loc.node_rec, << >>, loc.node_dat, loc.out0) = Len(out)

\* the sink has refused a write of the compile() call at hand
SinkFailed == fails > loc.fails0

(* C11: a failure of the sink at any write of the emission aborts it: no    *)
(* further write to the sink is attempted in that compile, an IOError       *)
(* diagnostic is recorded, and compile returns Err.                         *)
C11_SinkFailureAborts ==
    /\ [](( Returned /\ SinkFailed) => (Recorded({"IOError"}) /\ result = "Err"))
    /\ [][SinkFailed => (out' = out /\ fails' = fails)]_vars

IsMemberCall(c) == kind(tree, c.rec) = "RecStructMember" /\ kind(tree, c.dat) = "DatMap"
\* the member of the call has no entry in the call's data
Unassigned(c) == IsMemberCall(c) /\ EntriesFor(c.dat, c.rec) = {}
Count(e) == Cardinality({k \in 1..Len(errors) : errors[k] = e})
\* every entry of the map is an assignment to a plain identifier
PlainEntries(dat) ==
    \A k \in 1..Len(Entries(dat)) :
        /\ kind(tree, Entries(dat)[k]) = "DatMapAssignment"
        /\ children(tree, EntryKey(Entries(dat)[k])) = << >>

(* C12: a struct member without a data entry of its name gets exactly one   *)
(* UndefinedValue diagnostic (and only such a member gets one), no byte is  *)
(* written for it, and the struct still emits all its members, in schema    *)
(* order.                                                                   *)
C12_UndefinedValue ==
    /\ \A i \in CallIds :
          Unassigned(calls[i]) =>
              /\ Closed(calls[i]) /\ Bytes(calls[i]) = << >> /\ SubCalls(i) = {}
              /\ Count(E_node("UndefinedValue", calls[i].rec)) =
                    Cardinality({j \in CallIds : calls[j].rec = calls[i].rec
                                                   /\ Unassigned(calls[j])})
    /\ \A k \in 1..Len(ThisCompile) :
          ThisCompile[k].kind = "UndefinedValue" =>
              \E i \in CallIds : Unassigned(calls[i]) /\ calls[i].rec = ThisCompile[k].node
    /\ \A i \in CallIds :
          (Closed(calls[i]) /\ IsStructCall(calls[i]) /\ PlainEntries(calls[i].dat)) =>
              LET ms == DeclaredMembers(calls[i].rec)
              IN  /\ Concatenates(i, Len(ms), 0)
                  /\ \A k \in 1..Len(ms) :
                        /\ calls[NthSub(i, k)].rec = ms[k]
                        /\ calls[NthSub(i, k)].dat = calls[i].dat

\* x: i32 has no entry, y: i32 has: one diagnostic, and the bytes of y alone
C12_Witness ==
    /\ Returned /\ ~SinkFailed
    /\ \E i, j \in CallIds :
          /\ Unassigned(calls[i]) /\ i < j
          /\ calls[j].up = calls[i].up
          /\ IsMemberCall(calls[j]) /\ Bytes(calls[j]) = <<2, 0, 0, 0>>
          /\ ThisCompile = <<E_node("UndefinedValue", calls[i].rec)>>
    /\ Len(out) = loc.out0 + 4

\* the entries of the call's data that carry the name of its member, in data order
EntriesOf(c) ==
    LET Carries(a) == name(tree, EntryKey(a)) = name(tree, c.rec)
    IN  SelectSeq(Entries(c.dat), Carries)

(* C13: when k >= 2 data entries carry the name of a struct member, the     *)
(* value of the first of them, in data order, is emitted and exactly k - 1  *)
(* RedefinedValue diagnostics are recorded, one for each later entry.       *)
C13_RedefinedValue ==
    \A i \in CallIds :
        (Closed(calls[i]) /\ IsMemberCall(calls[i]) /\ Len(EntriesOf(calls[i])) >= 2) =>
            LET es == EntriesOf(calls[i])
            IN  /\ Delegates(i, unique_child(tree, calls[i].rec), EntryValue(es[1]))
                /\ Count(E_node("RedefinedValue", es[1])) = 0
                /\ \A k \in 2..Len(es) : Count(E_node("RedefinedValue", es[k])) = 1
                /\ Cardinality({k \in 1..Len(errors) :
                        /\ errors[k].kind = "RedefinedValue"
                        /\ \E n \in 1..Len(Entries(calls[i].dat)) :
                              errors[k].node = Entries(calls[i].dat)[n]})
                      = Len(es) - 1

\* x assigned three times: 1 is written, the entries of 3 and 5 are reported
C13_Witness ==
    /\ Returned /\ ~SinkFailed
    /\ \E i \in CallIds :
          /\ IsMemberCall(calls[i]) /\ Len(EntriesOf(calls[i])) = 3
          /\ Bytes(calls[i]) = <<1, 0, 0, 0>>
          /\ ThisCompile = <<E_node("RedefinedValue", EntriesOf(calls[i])[2]),
                             E_node("RedefinedValue", EntriesOf(calls[i])[3])>>

\* resolve_types has run in the call at hand and recorded no diagnostic
ResolvedClean == Ran("resolve") /\ ~Recorded(ResolutionKinds)
Nodes == DOMAIN tree.items
\* the BigInt v lies in the range of the integer type of bit_size bits
ValueInRange(bit_size, signed, v) ==
    IF v.mag = << >> THEN TRUE
    ELSE IF v.neg THEN signed /\ DecLe(DecOfBytes(v.mag), Pow2Dec(bit_size - 1))
    ELSE DecLt(DecOfBytes(v.mag), Pow2Dec(IF signed THEN bit_size - 1 ELSE bit_size))
\* the key type of the enum the item n belongs to
KeyTypeOf(n) == get(tree, unwrap_id(get(tree, Unwrap(parent(tree, n))).content.key_type)).content

(* C14: after resolve_types on the root either a diagnostic was recorded,   *)
(* or every RecTypeInst, RecTupleMember and RecEnum key type holds a        *)
(* resolved node id, never a path, and every RecEnumItem value lies in the  *)
(* range of its enum's key type.                                            *)
C14_ResolvedOrDiagnosed ==
    ResolvedClean =>
        \A n \in Nodes :
            LET c == get(tree, n).content
            IN  /\ c.kind \in {"RecTypeInst", "RecTupleMember"} =>
                      IsId(c.tid) /\ unwrap_id(c.tid) \in Nodes
                /\ c.kind = "RecEnum" =>
                      IsId(c.key_type) /\ unwrap_id(c.key_type) \in Nodes
                /\ c.kind = "RecEnumItem" =>
                      /\ KeyTypeOf(n).kind = "RecInt"
                      /\ ValueInRange(KeyTypeOf(n).bit_size, KeyTypeOf(n).signed, c.value)

\* an enum with tuple payloads has been resolved: its third item holds 2
C14_Witness ==
    /\ ResolvedClean
    /\ \E n \in Nodes : kind(tree, n) = "RecTupleMember" /\ IsId(get(tree, n).content.tid)
    /\ \E n \in Nodes : get(tree, n).content = RecEnumItem(BigFrom(2))
    /\ \E n \in Nodes : kind(tree, n) = "RecEnum" /\ name(tree, n) = None
                        /\ IsId(get(tree, n).content.key_type)

\* the generic parameters the node declares
GenericParams(n) ==
    IF kind(tree, n) \in {"RecStruct", "RecList", "RecMap"}
    THEN {k \in 1..Len(children(tree, n)) : kind(tree, children(tree, n)[k]) = "RecGeneric"}
    ELSE {}

(* C15: after resolve_types, every RecTypeInst whose type resolved has as   *)
(* many generic-argument children as its target has RecGeneric children (0  *)
(* for a target that is not a RecStruct, RecList or RecMap), or a           *)
(* GenericArgCountMismatch naming it, with the expected and the actual      *)
(* count, was recorded.                                                     *)
C15_GenericArgCount ==
    Ran("resolve") =>
        \A n \in Nodes :
            (kind(tree, n) = "RecTypeInst" /\ IsId(get(tree, n).content.tid)) =>
                LET expected == Cardinality(GenericParams(unwrap_id(get(tree, n).content.tid)))
                    current  == Len(children(tree, n))
                IN  IF current = expected
                    THEN \A k \in 1..Len(errors) :
                            errors[k].kind = "GenericArgCountMismatch" => errors[k].node # n
                    ELSE Count(E_GenericArgCountMismatch(n, expected, current)) = 1

\* List<u8, u8> was reported: one parameter expected, two arguments given
C15_Witness ==
    /\ Ran("resolve")
    /\ \E n \in Nodes :
          /\ kind(tree, n) = "RecTypeInst" /\ IsId(get(tree, n).content.tid)
          /\ kind(tree, unwrap_id(get(tree, n).content.tid)) = "RecList"
          /\ ThisCompile = <<E_GenericArgCountMismatch(n, 1, 2)>>

\* the items of the enum n, in child order
EnumItems(n) == children(tree, n)
\* the enum n has a key type that resolved to a RecInt
HasIntKey(n) ==
    /\ kind(tree, n) = "RecEnum"
    /\ IsId(get(tree, n).content.key_type)
    /\ kind(tree, unwrap_id(get(tree, n).content.key_type)) = "RecInt"

RECURSIVE Chain(_)
Chain(n) == IF IsSome(parent(tree, n)) THEN <<n>> \o Chain(Unwrap(parent(tree, n))) ELSE <<n>>
\* the children of s that carry the name nm, by position
Named(s, nm) == {i \in 1..Len(children(tree, s)) : name(tree, children(tree, s)[i]) = Some(nm)}
\* the node the name nm stands for at node n: the first child of that name in the
\* nearest RecStruct above n that has one; None when no RecStruct above n has one
Visible(n, nm) ==
    LET ch   == Chain(n)
        encl == {i \in 1..Len(ch) : kind(tree, ch[i]) = "RecStruct" /\ Named(ch[i], nm) # {}}
    IN  IF encl = {} THEN None
        ELSE LET s == ch[CHOOSE i \in encl : \A j \in encl : i <= j]
             IN  Some(children(tree, s)[CHOOSE i \in Named(s, nm) : \A j \in Named(s, nm) : i <= j])
\* the type reference the node n holds, if it holds one
TypeRef(t, n) ==
    LET c == get(t, n).content
    IN  IF c.kind \in {"RecTypeInst", "RecTupleMember"} THEN Some(c.tid)
        ELSE IF c.kind = "RecEnum" THEN Some(c.key_type)
        ELSE None
\* the nodes that hold a type name still to be resolved
Unresolved == {n \in Nodes : IsSome(TypeRef(tree, n)) /\ ~IsId(Unwrap(TypeRef(tree, n)))}

(* C17: type names are scoped lexically.  The step that runs resolve_types  *)
(* turns every type name into the child of that name of the nearest         *)
(* enclosing RecStruct that has one, so an inner definition shadows an      *)
(* outer one and the builtins at root, a root name is seen from anywhere,   *)
(* and a name that no enclosing RecStruct defines (it lies inside another   *)
(* struct, or in a sibling subtree) stays a path and is reported as         *)
(* UnresolvedType for that node.                                            *)
C17_LexicalScoping ==
    [][pc = "resolve" =>
          \A n \in Unresolved :
              LET nm == Unwrap(Unwrap(TypeRef(tree, n)).path)
                  v  == Visible(n, nm)
                  reported == \E k \in (Len(errors) + 1)..Len(errors') :
                                  errors'[k] = E_UnresolvedType(nm, n)
              IN  IF IsSome(v)
                  THEN Unwrap(TypeRef(tree', n)) = Id(Unwrap(v)) /\ ~reported
                  ELSE Unwrap(TypeRef(tree', n)) = Path(nm) /\ reported]_vars

\* the targets of the type instances of the running compile that name nm
Targets(nm) ==
    {unwrap_id(get(tree, n).content.tid) :
        n \in {m \in Nodes : /\ kind(tree, m) = "RecTypeInst"
                             /\ IsId(get(tree, m).content.tid)
                             /\ name(tree, unwrap_id(get(tree, m).content.tid)) = Some(nm)}}

\* the shadowing recipe resolved: "A" stands for two different structs, the inner
\* one for the member inside B, and the emission wrote the inner x as u16
C17_Witness ==
    /\ loc.rec = R_shadow
    /\ Returned /\ result = "Ok"
    /\ Cardinality(Targets("A")) = 2
    /\ \E a \in Targets("A") : parent(tree, a) # Some(loc.node_rec)
    /\ SubSeq(out, loc.out0 + 1, Len(out)) = <<1, 0, 2>>

\* the nodes reached from n by following parent links one to k times
RECURSIVE Above(_, _)
Above(n, k) ==
    IF k = 0 \/ ~HasItem(tree, n) \/ ~IsSome(parent(tree, n)) THEN {}
    ELSE {Unwrap(parent(tree, n))} \cup Above(Unwrap(parent(tree, n)), k - 1)
Ancestors(n) == Above(n, Cardinality(Nodes))

(* C18: after any sequence of create, create_with_parent, child and clear,  *)
(* the parent links contain no cycle: no node is its own ancestor.          *)
C18_NoCycle == \A n \in Nodes : n \notin Ancestors(n)

\* how many times c occurs in the children list of p
Occurrences(p, c) == Cardinality({i \in 1..Len(children(tree, p)) : children(tree, p)[i] = c})
\* parent and child links agree
LinksAgree ==
    \A c \in Nodes :
        /\ IsSome(parent(tree, c)) => Unwrap(parent(tree, c)) \in Nodes
        /\ \A p \in Nodes :
              Occurrences(p, c) = (IF parent(tree, c) = Some(p) THEN 1 ELSE 0)
\* the call being made attaches a node that has a parent already
Reattach ==
    /\ loc'.op = "child"
    /\ HasItem(tree, loc'.child)
    /\ IsSome(parent(tree, loc'.child))

(* C19: as long as no tree operation has panicked, parent and child links   *)
(* agree: c has parent p exactly when c occurs in the children of p, once,  *)
(* and in no other list; a parent once set is never changed by an operation *)
(* that does not panic, and attaching a node that has a parent panics and   *)
(* changes nothing.                                                         *)
C19_LinksConsistent ==
    /\ [](pc = "idle" => LinksAgree)
    /\ [][pc' = "idle" =>
            \A n \in Nodes \cap DOMAIN tree'.items :
                IsSome(parent(tree, n)) => parent(tree', n) = parent(tree, n)]_vars
    /\ [][Reattach => (pc' = "panic" /\ tree' = tree)]_vars

\* a node attached by child() under a node that already had a child
C19_Witness ==
    /\ pc = "idle"
    /\ calls # << >>
    /\ loc.op = "child"
    /\ HasItem(tree, loc.child)
    /\ parent(tree, loc.child) = loc.parent
    /\ Len(children(tree, Unwrap(loc.parent))) = 2
    /\ C18_NoCycle

(* C20: ids are monotone and never reused: the creating calls on one tree   *)
(* return strictly increasing ids starting at 0, every live item carries an *)
(* id that was returned, and clear() removes every item and leaves the      *)
(* counter alone, so an id returned before a clear is not returned again.   *)
C20_MonotoneIds ==
    /\ [](/\ calls # << >> => calls[1] = 0
          /\ \A i, j \in 1..Len(calls) : i < j => calls[i] < calls[j]
          /\ \A i \in 1..Len(calls) : calls[i] < tree.next_id
          /\ pc = "idle" => \A n \in Nodes : \E i \in 1..Len(calls) : calls[i] = n)
    /\ [][loc'.op = "clear" => (tree'.items = << >> /\ tree'.next_id = tree.next_id)]_vars

\* an id handed out after a clear: the earlier items are gone, the ids went on
C20_Witness ==
    /\ pc = "idle"
    /\ calls = <<0, 1, 2>>
    /\ Nodes = {2}

\* the call c is a RecTypeInst whose target may be generic: it pushes its arguments
Pushes(c) ==
    /\ kind(tree, c.rec) = "RecTypeInst"
    /\ IsId(get(tree, c.rec).content.tid)
    /\ kind(tree, unwrap_id(get(tree, c.rec).content.tid)) \in {"RecStruct", "RecList", "RecMap"}
\* the frames below the top
BelowTop(gs) == SubSeq(gs, 1, Len(gs) - 1)
\* the stack is as it was when the call c was entered
Balanced(gs, c) == Len(gs) = Len(c.gs) /\ BelowTop(gs) = BelowTop(c.gs)

(* C21: the generic-substitution stack is balanced.  When a write call      *)
(* returns Ok the stack has the depth and the frames below the top that it  *)
(* had when the call was entered; a call pushes exactly when it is a        *)
(* RecTypeInst whose target is a RecStruct, RecList or RecMap, and what it  *)
(* pushes is its argument list; on an I/O Err every frame taken off is the  *)
(* frame of a call still open, which leaves the stack as that call found    *)
(* it; and once write has returned, and after the compile, the stack is     *)
(* empty.                                                                   *)
C21_StackBalanced ==
    /\ [][pc = "write" =>
            \A k \in 1..Len(calls) :
                (calls[k].to = -1 /\ calls'[k].to # -1) => Balanced(generic_stack', calls[k])]_vars
    /\ [][(pc = "write" /\ Len(calls') > Len(calls)) =>
            LET c == calls'[Len(calls')]
            IN  IF Pushes(c) /\ pc' = "write"
                THEN generic_stack' = Append(generic_stack, children(tree, c.rec))
                ELSE generic_stack' = generic_stack]_vars
    /\ [][(pc = "write" /\ Len(generic_stack') < Len(generic_stack)) =>
            \E k \in 1..Len(calls) :
                /\ Pushes(calls[k])
                /\ wres = "ioerr" => calls[k].to = -1
                /\ generic_stack = Append(calls[k].gs, children(tree, calls[k].rec))
                /\ generic_stack' = calls[k].gs]_vars
    /\ []((pc \in {"write", "finish", "idle"} /\ agenda = << >>) => generic_stack = << >>)

\* a compile that returned Ok after an instantiation nested in another one
C21_Witness ==
    /\ Returned /\ result = "Ok"
    /\ generic_stack = << >>
    /\ \E j, k \in 1..Len(calls) :
          /\ j < k /\ Pushes(calls[j]) /\ Pushes(calls[k])
          /\ Len(calls[k].gs) = 1 /\ calls[j].gs = << >>
          /\ calls[j].to # -1 /\ calls[k].to # -1

Offending(dat) ==
    {k \in 1..Len(Entries(dat)) :
        \/ kind(tree, Entries(dat)[k]) # "DatMapAssignment"
        \/ children(tree, EntryKey(Entries(dat)[k])) # << >>}
\* no diagnostic of this call's making about a member of rec or an entry of dat
NoMemberDiagnostics(i) ==
    /\ \A k \in 1..Len(Entries(calls[i].dat)) :
          Count(E_node("RedefinedValue", Entries(calls[i].dat)[k])) = 0
    /\ \A m \in 1..Len(DeclaredMembers(calls[i].rec)) :
          Count(E_node("UndefinedValue", DeclaredMembers(calls[i].rec)[m])) =
              Cardinality({j \in CallIds : /\ calls[j].rec = DeclaredMembers(calls[i].rec)[m]
                                            /\ calls[j].up # i
                                            /\ Unassigned(calls[j])})

(* C23: a struct emitted against a map with entries whose key is no plain   *)
(* identifier records one ExpectedDatIdentifier for each such entry and is  *)
(* skipped whole: no member is emitted, no byte is written, no member is    *)
(* reported undefined or redefined. Against data that is no map it records  *)
(* one DataNotStruct on the data node and writes nothing.                   *)
C23_StructValidatesFirst ==
    \A i \in CallIds :
        kind(tree, calls[i].rec) = "RecStruct" =>
            /\ (kind(tree, calls[i].dat) = "DatMap" /\ Offending(calls[i].dat) # {}) =>
                  /\ Closed(calls[i]) /\ Bytes(calls[i]) = << >> /\ SubCalls(i) = {}
                  /\ \A k \in 1..Len(Entries(calls[i].dat)) :
                        Count(E_node("ExpectedDatIdentifier", Entries(calls[i].dat)[k])) =
                            (IF k \in Offending(calls[i].dat) THEN 1 ELSE 0)
                  /\ NoMemberDiagnostics(i)
                  /\ DiagnosticsOn(calls[i].dat) = {}
            /\ kind(tree, calls[i].dat) # "DatMap" =>
                  /\ Closed(calls[i]) /\ Bytes(calls[i]) = << >> /\ SubCalls(i) = {}
                  /\ Count(E_node("DataNotStruct", calls[i].dat)) = 1
                  /\ Cardinality(DiagnosticsOn(calls[i].dat)) = 1

\* x: 1, A(3): 2, y: 2 against struct { x: i32, y: i32 }: one diagnostic, on
\* the second entry, and not a byte although x and y both have a value
C23_Witness ==
    /\ Returned /\ ~SinkFailed /\ result = "Err"
    /\ Len(out) = loc.out0
    /\ \E i \in CallIds :
          /\ IsStructCall(calls[i]) /\ Offending(calls[i].dat) = {2}
          /\ Len(Entries(calls[i].dat)) = 3
          /\ Len(DeclaredMembers(calls[i].rec)) = 2
          /\ ThisCompile = <<E_node("ExpectedDatIdentifier", Entries(calls[i].dat)[2])>>

\* a diagnostic that names the node in one of its node fields
Mentions(e, nid) == \E f \in DOMAIN e \cap {"node", "node_data", "node_name"} : e[f] = nid

(* C24: a RecTuple is emitted from a DatTuple only: data of any other kind, *)
(* such as a DatList with as many children as the tuple has members, is     *)
(* rejected with a diagnostic and its children are not emitted as the       *)
(* members of the tuple.                                                    *)
C24_TupleFromDatTupleOnly ==
    \A i \in CallIds :
        (kind(tree, calls[i].rec) = "RecTuple" /\ kind(tree, calls[i].dat) # "DatTuple") =>
            /\ SubCalls(i) = {}
            /\ Closed(calls[i]) => /\ Bytes(calls[i]) = << >>
                                  /\ \E k \in 1..Len(errors) : Mentions(errors[k], calls[i].dat)

IsTupleCall(c) == kind(tree, c.rec) = "RecTuple"
\* the type the k-th member of the tuple resolved to
MemberType(rec, k) == unwrap_id(get(tree, children(tree, rec)[k]).content.tid)

(* C25: a RecTuple with m members emitted against data with n # m children *)
(* records exactly one TupleSizeMismatch naming the tuple and the data node *)
(* and emits no member and no byte; with n = m the i-th data child is       *)
(* emitted against the resolved type of the i-th member, in order.          *)
C25_TupleArity ==
    \A i \in CallIds :
        IsTupleCall(calls[i]) =>
            LET m == Len(children(tree, calls[i].rec))
                n == Len(children(tree, calls[i].dat))
            IN  /\ n # m =>
                      /\ Closed(calls[i]) /\ Bytes(calls[i]) = << >> /\ SubCalls(i) = {}
                      /\ Count(E_TupleSizeMismatch(calls[i].rec, calls[i].dat)) = 1
                      /\ Cardinality({k \in 1..Len(errors) :
                                         Mentions(errors[k], calls[i].dat)}) = 1
                /\ n = m =>
                      /\ Count(E_TupleSizeMismatch(calls[i].rec, calls[i].dat)) = 0
                      /\ \A j \in SubCalls(i) :
                            \E k \in 1..m : /\ j = NthSub(i, k)
                                            /\ calls[j].rec = MemberType(calls[i].rec, k)
                                            /\ calls[j].dat = children(tree, calls[i].dat)[k]
                      /\ Closed(calls[i]) => Concatenates(i, m, 0)

\* (bool, u32) against (true, 3, 4): one TupleSizeMismatch naming the tuple and
\* the data, no call for a member, no byte
C25_Witness ==
    /\ Returned /\ ~SinkFailed /\ result = "Err"
    /\ Len(out) = loc.out0
    /\ \E i \in CallIds :
          /\ IsTupleCall(calls[i]) /\ kind(tree, calls[i].dat) = "DatTuple"
          /\ Len(children(tree, calls[i].rec)) = 2
          /\ Len(children(tree, calls[i].dat)) = 3
          /\ SubCalls(i) = {}
          /\ ThisCompile = <<E_TupleSizeMismatch(calls[i].rec, calls[i].dat)>>

(* C26: a RecEnum emitted against a DatEnum whose name is the name of none *)
(* of its items records exactly one EnumUndefinedName naming the enum and  *)
(* the data node, and writes no byte.                                       *)
C26_EnumUndefinedName ==
    \A i \in CallIds :
        (IsEnumCall(calls[i]) /\ NamedItems(calls[i]) = {}) =>
            /\ Closed(calls[i]) /\ Bytes(calls[i]) = << >> /\ SubCalls(i) = {}
            /\ Count(E_EnumUndefinedName(calls[i].rec, calls[i].dat)) = 1
            /\ Cardinality({k \in 1..Len(errors) : Mentions(errors[k], calls[i].dat)}) = 1

\* E(1) against enum { A(u32), B(bool), C(i32, bool), D }: the one diagnostic,
\* nothing written, the payload not looked at
C26_Witness ==
    /\ Returned /\ ~SinkFailed /\ result = "Err"
    /\ Len(out) = loc.out0
    /\ \E i \in CallIds :
          /\ IsEnumCall(calls[i]) /\ NamedItems(calls[i]) = {}
          /\ Len(children(tree, calls[i].rec)) = 4
          /\ children(tree, calls[i].dat) # << >>
          /\ ThisCompile = <<E_EnumUndefinedName(calls[i].rec, calls[i].dat)>>

(* C27: whenever the emission of a recipe that resolved without diagnostics *)
(* reaches a RecGeneric{index}, the generic stack is not empty and its top  *)
(* frame has more than index entries, so that the lookup never panics:      *)
(* also for a non-generic struct nested in a generic struct whose parameter *)
(* it uses, and for a generic struct that is itself the top-level recipe.   *)
C27_GenericLookupSafe ==
    \A i \in CallIds :
        kind(tree, calls[i].rec) = "RecGeneric" =>
            /\ calls[i].gs # << >>
            /\ Len(calls[i].gs[Len(calls[i].gs)]) > get(tree, calls[i].rec).content.index

\* the kinds of node that denote a type
TypeKinds == {"RecInt", "RecFloat", "RecList", "RecMap", "RecStruct", "RecEnum", "RecGeneric"}

(* C28: after a resolution that recorded no diagnostic, every resolved type *)
(* reference targets a node that denotes a type (RecInt, RecFloat, RecList, *)
(* RecMap, RecStruct, RecEnum or RecGeneric), never a RecStructMember.      *)
C28_ReferencesTargetTypes ==
    ResolvedClean =>
        \A n \in Nodes :
            (IsSome(TypeRef(tree, n)) /\ IsId(Unwrap(TypeRef(tree, n)))) =>
                kind(tree, unwrap_id(Unwrap(TypeRef(tree, n)))) \in TypeKinds

\* the entries of the map whose key carries the name of no member of the struct
Stray(c) ==
    {k \in 1..Len(Entries(c.dat)) :
        \A m \in 1..Len(DeclaredMembers(c.rec)) :
            name(tree, EntryKey(Entries(c.dat)[k])) # name(tree, DeclaredMembers(c.rec)[m])}
\* the entry, its key and its value
EntryNodes(a) == {a, EntryKey(a), EntryValue(a)}
\* x: 1, y: 2 with an entry of another key in between
WithStray(key) == Body(<<D_assign(D_id("x"), N(1)), D_assign(key, N(3)), D_assign(D_id("y"), N(2))>>)
Emitted == SubSeq(out, loc.out0 + 1, Len(out))

RECURSIVE Descendants(_)
\* the node n and all nodes below it
Descendants(n) ==
    {n} \cup UNION {Descendants(children(tree, n)[k]) : k \in 1..Len(children(tree, n))}
\* the data names an item of the enum that declares no payload type, and brings a payload
PayloadUnasked(c) ==
    /\ IsEnumCall(c) /\ NamedItems(c) # {}
    /\ children(tree, children(tree, c.rec)[FirstNamedItem(c)]) = << >>
    /\ children(tree, c.dat) # << >>

(* C30: a payload given in the data for an enum item that declares no      *)
(* payload type is dropped silently: only the tag is written, no diagnostic *)
(* is recorded, and the bytes are those of the bare identifier.             *)
C30_UnaskedPayloadDropped ==
    /\ \A i \in CallIds :
          PayloadUnasked(calls[i]) =>
              /\ SubCalls(i) = {}
              /\ \A n \in Descendants(calls[i].dat) :
                    /\ \A e \in 1..Len(errors) : ~Mentions(errors[e], n)
                    /\ \A j \in CallIds : calls[j].dat = n => j = i
              /\ Closed(calls[i]) =>
                    /\ Len(Bytes(calls[i])) = TagWidth(calls[i])
                    /\ DecOfBytes(Bytes(calls[i])) = DecOfNat(FirstNamedItem(calls[i]) - 1)
    /\ (Returned /\ ~SinkFailed /\ loc.rec = R_enum
          /\ loc.dat \in {Val(D_id("D")), Val(D_enum("D", <<D_tuple(<<N(1)>>)>>)),
                          Val(D_enum("D", <<D_map(<<D_assign(D_id("a"), N(1))>>)>>))}) =>
              /\ result = "Ok" /\ ThisCompile = << >>
              /\ Emitted = <<3, 0, 0, 0>>

\* D(1) against enum { A(u32), B(bool), C(i32, bool), D }: the tag 3 and no more
C30_Witness ==
    /\ Returned /\ ~SinkFailed /\ result = "Ok" /\ errors = << >>
    /\ Emitted = <<3, 0, 0, 0>>
    /\ \E i \in CallIds :
          /\ PayloadUnasked(calls[i]) /\ Closed(calls[i])
          /\ kind(tree, children(tree, calls[i].dat)[1]) = "DatTuple"
          /\ Cardinality(Descendants(calls[i].dat)) = 3

=============================================================================
